---- MODULE Spec2Model ----
(***************************************************************************)
(* A model of the WGDashboard client of wg-vpn-bot (src/app/wgd_api.py):   *)
(* the retrying transport (_arequest), the short-TTL cache, the idempotent *)
(* configuration and peer operations and the multi-variant download.       *)
(*                                                                         *)
(* Conventions.  A text (an error message, a response body) is a sequence  *)
(* of symbols; every keyword the code searches for ("already",             *)
(* "allowed_ip", "[Interface]") is one symbol, and one symbol counts as    *)
(* one character for slicing.  Times are whole milliseconds for the        *)
(* backoff and whole seconds for the cache clock.  An upstream request is  *)
(* served by the dashboard in one step (Serve...) and its response is      *)
(* handled by the client in a later step (Recv...), so that other tasks    *)
(* may run in between, as they may at every await of the code.             *)
(***************************************************************************)
EXTENDS Integers, Sequences, FiniteSets, TLC

VARIABLES
  \* ---- _arequest on its own (SpecReq) ----
  rqArgs,      \* [method, path, retries]: the arguments of the call
  attempt,     \* the loop's attempt counter
  backoff,     \* the loop's backoff, in ms
  rqLog,       \* history: the response each attempt received, in order
  rqSlept,     \* history: the backoff sleeps taken, in order (ms)
  rqOut,       \* [st, val, err]: running, returned (val) or raised (err)
  \* ---- the client and the dashboard (all other specifications) ----
  now,         \* time.time(), in whole seconds
  cache,       \* self._cache: key -> [ts, val], a function on the keys present
  up,          \* the dashboard's configurations, in list order
  up0,         \* history: the dashboard's configurations at the start
  upEmbed,     \* whether the dashboard's configuration list embeds the peer lists
  \* ---- ensure_config (SpecEnsure) ----
  ens,         \* per task: [pc, attempt, wire, out, posts, after]
  ensFault,    \* history: the kinds of request ("list", "create") that got a
               \* failure other than a duplicate's rejection
  \* ---- create_peer's choice of the identifier (SpecIdent) ----
  idRec,       \* the peer record add_peer_minimal returned
  idOut,       \* [st, val, err]: what create_peer did with it
  \* ---- create_peer (SpecPeer) ----
  cp,          \* the running call: its position, locals and history
  \* ---- delete_peer without a config (SpecDelete) ----
  dp,          \* the running call: its position, locals and history
  \* ---- download_peer_conf (SpecDownload) ----
  dl,          \* the running call: its position, locals and history
  \* ---- cached reads and mutations by two tasks (SpecCache) ----
  tk,          \* per task: the running operation, its locals and history
  \* ---- _suggest_next_allowed_ip as a function (SpecAlloc) ----
  al,          \* the inputs and the result
  \* ---- two concurrent create_peer calls (SpecRace) ----
  rc,          \* per task: the running call, as cp
  \* ---- _norm_peer on one raw peer record (SpecNorm) ----
  np,          \* the raw record, the clock and the normalized peer
  \* ---- _num and _to_unix on one value (SpecCoerce) ----
  cv,          \* the value, what it encodes and the results
  \* ---- find_peer_in_snapshot (SpecFind) ----
  fp,          \* the snapshot, the arguments and the result
  \* ---- totals (SpecTotals) ----
  tt,          \* the running call: its position, locals and history
  \* ---- get_peers with its endpoint variants (SpecGetPeers) ----
  gp,          \* the running call: its position, locals and history
  \* ---- user_newpeer and the local database (SpecNewPeer) ----
  nw,          \* the users and peer rows, the handlers and the dashboard's log
  \* ---- peer_delete, peer_download, user_delpeer (SpecOwn) ----
  pd           \* the users and peer rows, the handler and the dashboard's log

reqVars == <<rqArgs, attempt, backoff, rqLog, rqSlept, rqOut>>
sysVars == <<now, cache, up, up0, upEmbed>>
ensVars == <<ens, ensFault>>
idVars == <<idRec, idOut>>
cpVars == <<cp>>
dpVars == <<dp>>
dlVars == <<dl>>
caVars == <<tk>>
alVars == <<al>>
rcVars == <<rc>>
npVars == <<np>>
cvVars == <<cv>>
fpVars == <<fp>>
ttVars == <<tt>>
snVars == <<npVars, cvVars, fpVars, ttVars>>
gpVars == <<gp>>
nwVars == <<nw>>
pdVars == <<pd>>
hVars == <<gpVars, nwVars, pdVars>>

vars == <<reqVars, sysVars, ensVars, idVars, cpVars, dpVars, dlVars, caVars, alVars, rcVars, snVars, hVars>>

\* What each specification leaves alone
exReq == <<sysVars, ensVars, idVars, cpVars, dpVars, dlVars, caVars, alVars, rcVars, snVars, hVars>>
exEns == <<reqVars, idVars, cpVars, dpVars, dlVars, caVars, alVars, rcVars, upEmbed, snVars, hVars>>
exId == <<reqVars, sysVars, ensVars, cpVars, dpVars, dlVars, caVars, alVars, rcVars, snVars, hVars>>
exCp == <<reqVars, ensVars, idVars, dpVars, dlVars, caVars, alVars, rcVars, up0, upEmbed, snVars, hVars>>
exDp == <<reqVars, ensVars, idVars, cpVars, dlVars, caVars, alVars, rcVars, up0, upEmbed, snVars, hVars>>
exDl == <<reqVars, sysVars, ensVars, idVars, cpVars, dpVars, caVars, alVars, rcVars, snVars, hVars>>
exCa == <<reqVars, ensVars, idVars, cpVars, dpVars, dlVars, alVars, rcVars, up0, upEmbed, snVars, hVars>>
exAl == <<reqVars, sysVars, ensVars, idVars, cpVars, dpVars, dlVars, caVars, rcVars, snVars, hVars>>
exRc == <<reqVars, ensVars, idVars, cpVars, dpVars, dlVars, caVars, alVars, up0, upEmbed, snVars, hVars>>
exNp == <<reqVars, sysVars, ensVars, idVars, cpVars, dpVars, dlVars, caVars, alVars, rcVars, cvVars, fpVars, ttVars, hVars>>
exCv == <<reqVars, sysVars, ensVars, idVars, cpVars, dpVars, dlVars, caVars, alVars, rcVars, npVars, fpVars, ttVars, hVars>>
exFp == <<reqVars, sysVars, ensVars, idVars, cpVars, dpVars, dlVars, caVars, alVars, rcVars, npVars, cvVars, ttVars, hVars>>
exTt == <<reqVars, ensVars, idVars, cpVars, dpVars, dlVars, caVars, alVars, rcVars, npVars, cvVars, fpVars, up0, upEmbed, hVars>>
exGp == <<reqVars, ensVars, idVars, cpVars, dpVars, dlVars, caVars, alVars, rcVars, snVars, nwVars, pdVars, up0, upEmbed>>
exNw == <<reqVars, ensVars, idVars, cpVars, dpVars, dlVars, caVars, alVars, rcVars, snVars, gpVars, pdVars, cache, up, up0, upEmbed>>
exPd == <<reqVars, sysVars, ensVars, idVars, cpVars, dpVars, dlVars, caVars, alVars, rcVars, snVars, gpVars, nwVars>>
exNow == <<reqVars, ensVars, idVars, cpVars, dpVars, dlVars, caVars, alVars, rcVars, cache, up, up0, upEmbed, snVars, hVars>>

-----------------------------------------------------------------------------
(* Generic helpers *)

Min(a, b) == IF a <= b THEN a ELSE b

Take(s, n) == SubSeq(s, 1, Min(Len(s), n))

\* str.lower() on the symbols this model uses
Lower(sym) ==
  CASE sym = "Already" -> "already"
    [] sym = "ALLOWED_IP" -> "allowed_ip"
    [] OTHER -> sym

\* `needle in text.lower()` for a one-symbol needle
ContainsLower(text, needle) == \E i \in 1..Len(text) : Lower(text[i]) = needle

\* `needle in text`, case-sensitive
Contains(text, needle) == \E i \in 1..Len(text) : text[i] = needle

NoVal == [none |-> TRUE]

\* The "data" entry of a JSON envelope: absent or null, a list, or an object
NoData == [kind |-> "none", items |-> <<>>]
ListData(items) == [kind |-> "list", items |-> items]

-----------------------------------------------------------------------------
(* Program constants of WGDAPI *)

MAX_RETRIES == 2
BackoffStart == 250
BackoffCap == 2000
BodyCut == 400
RETRY_STATUSES == {502, 503, 504}

-----------------------------------------------------------------------------
(* HTTP responses.  net is "ok" when a response arrived, otherwise the     *)
(* httpx exception the request ended in.  json is the parse of the body:   *)
(* "dict", "list" or "invalid"; flag is the dict's "status" entry          *)
(* ("true", "false" or "absent"); message its "message"; data its "data".  *)

Resp(net, status, text, json, flag, message, data) ==
  [net |-> net, status |-> status, text |-> text, json |-> json,
   flag |-> flag, message |-> message, data |-> data]

NetFail(exc) == Resp(exc, 0, <<>>, "invalid", "absent", <<>>, NoData)

HttpErr(status, text) == Resp("ok", status, text, "invalid", "absent", <<>>, NoData)

JsonOk(data) == Resp("ok", 200, <<"{json}">>, "dict", "true", <<>>, data)

JsonFail(message) == Resp("ok", 200, <<"{json}">>, "dict", "false", message, NoData)

TimeoutExcs == {"ReadTimeout", "ConnectTimeout"}

\* The error of an attempt that raises
WGDError(msg) == [cls |-> "WGDError", msg |-> msg]

NoErr == [cls |-> "none", msg |-> <<>>]

\* backoff = min(backoff * 2, 2.0)
NextBackoff(b) == Min(b * 2, BackoffCap)

\* One pass of the while-loop body of _arequest (stream = False, expect_json =
\* True, as every caller leaves them) for the response r of attempt number n:
\* act is "retry" (sleep, back off, go round again), "return" (val) or "raise".
ArequestLoop(method, path, n, retries, r) ==
  LET arrow == <<method, path, "->">>
      out(act, val, err) == [act |-> act, val |-> val, err |-> err]
  IN  IF r.net \in TimeoutExcs
        THEN IF n <= retries
               THEN out("retry", NoVal, NoErr)
               ELSE out("raise", NoVal, WGDError(arrow \o <<"timeout">>))
      ELSE IF r.net # "ok"
        THEN IF n <= retries
               THEN out("retry", NoVal, NoErr)
               ELSE out("raise", NoVal, WGDError(arrow \o <<r.net>>))
      ELSE IF r.status >= 400
        THEN IF n <= retries /\ r.status \in RETRY_STATUSES
               THEN out("retry", NoVal, NoErr)
               ELSE out("raise", NoVal,
                        WGDError(arrow \o <<ToString(r.status)>> \o Take(r.text, BodyCut)))
      ELSE IF r.json = "invalid"
        THEN out("raise", NoVal, WGDError(arrow \o <<"invalid JSON">>))
      ELSE IF r.json = "dict" /\ r.flag = "false"
        THEN out("raise", NoVal, WGDError(<<"API error:">> \o r.message))
      ELSE out("return", r, NoErr)

\* Variants of the loop body with one slip each
AreqStep_ExtraRetry(method, path, n, retries, r) ==
  ArequestLoop(method, path, n, retries + 1, r)

AreqStep_NoCut(method, path, n, retries, r) ==
  IF r.net = "ok" /\ r.status >= 400 /\ r.status \notin RETRY_STATUSES
    THEN [act |-> "raise", val |-> NoVal,
          err |-> WGDError(<<method, path, "->", ToString(r.status)>> \o r.text)]
    ELSE ArequestLoop(method, path, n, retries, r)

AreqStep(method, path, n, retries, r) == ArequestLoop(method, path, n, retries, r)

-----------------------------------------------------------------------------
(* The cache: self._cache, _cache_key, _cache_get, _cache_set *)

CFG_TTL == 3
PEERS_TTL == 3

CfgKey == <<"configs">>
PeersKey(config) == <<"peers", config>>

EmptyCache == <<>>

\* _cache_get returns the value when the row exists and is at most ttl old
CacheHit(c, key, ttl, t) == key \in DOMAIN c /\ (t - c[key].ts) <= ttl

CachePop(c, key) == [k \in DOMAIN c \ {key} |-> c[k]]

\* _cache_get drops a row it finds expired
CacheAfterGet(c, key, ttl, t) ==
  IF key \in DOMAIN c /\ ~CacheHit(c, key, ttl, t) THEN CachePop(c, key) ELSE c

\* _cache_set that keeps an entry already present
CacheSet_KeepFirst(c, key, t, val) ==
  IF key \in DOMAIN c THEN c ELSE (key :> [ts |-> t, val |-> val]) @@ c

CacheSet(c, key, t, val) ==
  [k \in DOMAIN c \cup {key} |-> IF k = key THEN [ts |-> t, val |-> val] ELSE c[k]]

-----------------------------------------------------------------------------
(* Configuration records of the dashboard and their accessors.  An absent, *)
(* null or empty entry is "" (all are falsy in `a or b`).                  *)

\* An Address is "a.b.c.d/plen"; NoAddr is an absent or unusable one
NoAddr == [ip |-> 0, plen |-> 0 - 1]
Addr(ip, plen) == [ip |-> ip, plen |-> plen]

Cfg(nm) == [Name |-> nm, name |-> "", Address |-> NoAddr, Peers |-> <<>>]

\* _cfg_name: cfg.get("Name") or cfg.get("name")
CfgName(c) == IF c.Name # "" THEN c.Name ELSE c.name

\* {self._cfg_name(c) for c in ...}
CfgNames(list) == {CfgName(list[i]) : i \in DOMAIN list}

-----------------------------------------------------------------------------
(* Raw peer records: a JSON object is a function from the keys present to  *)
(* JSON values; a value is null, a string or a number.                     *)

Null == [t |-> "null", s |-> "", n |-> 0]
Str(x) == [t |-> "str", s |-> x, n |-> 0]
Num(k) == [t |-> "int", s |-> "", n |-> k]
\* the string "<address>/32", its address as a 32-bit number
Cidr(ip) == [t |-> "cidr", s |-> "", n |-> ip]

\* bool(v)
Truthy(v) == (v.t = "str" /\ v.s # "") \/ (v.t = "int" /\ v.n # 0) \/ v.t = "cidr"

\* str(v)
PyStr(v) ==
  CASE v.t = "str" -> v.s
    [] v.t = "int" -> ToString(v.n)
    [] v.t = "cidr" -> ToString(v.n) \o "/32"
    [] OTHER -> "None"

\* Optional[str]
NoneStr == [some |-> FALSE, s |-> ""]
Some(x) == [some |-> TRUE, s |-> x]

\* `not x` for an Optional[str]
Falsy(o) == ~o.some \/ o.s = ""

ID_KEYS == <<"id", "peer_id", "Id">>
PK_KEYS == <<"publicKey", "public_key", "PublicKey">>

\* The index of the first key of `keys` that is present with a value
\* satisfying ok (the for-loops over the alias tuples), or 0
FirstKey(peer, keys, ok(_)) ==
  LET hits == {i \in 1..Len(keys) : keys[i] \in DOMAIN peer /\ ok(peer[keys[i]])}
  IN  IF hits = {} THEN 0 ELSE CHOOSE i \in hits : \A j \in hits : i <= j

\* _peer_id: the first of id, peer_id, Id that is present and not None
PeerId(peer) ==
  LET notNull(v) == v.t # "null"
      i == FirstKey(peer, ID_KEYS, notNull)
  IN  IF i = 0 THEN NoneStr ELSE Some(PyStr(peer[ID_KEYS[i]]))

\* _peer_public_key: the first of publicKey, public_key, PublicKey that is
\* present and truthy
PeerPublicKey(peer) ==
  LET i == FirstKey(peer, PK_KEYS, Truthy)
  IN  IF i = 0 THEN NoneStr ELSE Some(PyStr(peer[PK_KEYS[i]]))

NoIdErr == WGDError(<<"API returned peer object without id/publicKey">>)

\* create_peer after add_peer_minimal returned `created`
CreatePeerResult_IdFirst(created) ==
  LET pid == PeerId(created)
      pk == PeerPublicKey(created)
  IN  IF ~Falsy(pid) THEN [st |-> "ok", val |-> pid.s, err |-> NoErr]
      ELSE IF ~Falsy(pk) THEN [st |-> "ok", val |-> pk.s, err |-> NoErr]
      ELSE [st |-> "raised", val |-> "", err |-> NoIdErr]

CreatePeerResult(created) ==
  LET pk == PeerPublicKey(created)
      pid == PeerId(created)
  IN  IF Falsy(pk)
        THEN IF Falsy(pid)
               THEN [st |-> "raised", val |-> "", err |-> NoIdErr]
               ELSE [st |-> "ok", val |-> pid.s, err |-> NoErr]
        ELSE [st |-> "ok", val |-> pk.s, err |-> NoErr]

-----------------------------------------------------------------------------
(* The address allocator: _suggest_next_allowed_ip *)

IP(a, b, c, d) == ((a * 256 + b) * 256 + c) * 256 + d

\* "10.66.66.2/32"
BootstrapIp == IP(10, 66, 66, 2)

RECURSIVE Pow2(_)
Pow2(n) == IF n <= 0 THEN 1 ELSE 2 * Pow2(n - 1)

NoNet == [ok |-> FALSE, base |-> 0, size |-> 0]

\* ipaddress.ip_interface(addr_str).network
NetOf(addr) ==
  IF addr.plen < 0 \/ addr.plen > 32 THEN NoNet
  ELSE LET size == Pow2(32 - addr.plen)
       IN  [ok |-> TRUE, base |-> addr.ip - (addr.ip % size), size |-> size]

\* IPv4Network.hosts()
Hosts(net) ==
  IF net.size >= 4 THEN (net.base + 1)..(net.base + net.size - 2)
  ELSE net.base..(net.base + net.size - 1)

SetMin(S) == CHOOSE x \in S : \A y \in S : x <= y
SetMax(S) == CHOOSE x \in S : \A y \in S : x >= y

\* _peer_allowed_ip: get("allowed_ip") or get("AllowedIP") or get("AllowedIp")
PeerAllowedIp(peer) ==
  LET i == FirstKey(peer, <<"allowed_ip", "AllowedIP", "AllowedIp">>, Truthy)
  IN  IF i = 0 THEN Null ELSE peer[<<"allowed_ip", "AllowedIP", "AllowedIp">>[i]]

\* the addresses of the peers whose allowed ip has a "/" and parses
UsedIps(raw_peers) ==
  {PeerAllowedIp(raw_peers[i]).n :
     i \in {j \in DOMAIN raw_peers : PeerAllowedIp(raw_peers[j]).t = "cidr"}}

\* lines 447-462: the walk over network.hosts(), then the fallback
SuggestFrom(net, used) ==
  LET free == {ip \in Hosts(net) : (ip % 256) \notin {0, 1} /\ ip \notin used}
  IN  IF net.ok /\ free # {} THEN SetMin(free)
      ELSE IF used = {} THEN BootstrapIp
      ELSE LET current == SetMax(used) + 1
           IN  IF (current % 256) \in {0, 1} THEN current + 1 ELSE current

\* next((c for c in cfgs if self._cfg_name(c) == config), None), as a list
\* of at most one element
TargetOf(cfgs, config) ==
  LET hits == {i \in DOMAIN cfgs : CfgName(cfgs[i]) = config}
  IN  IF hits = {} THEN <<>> ELSE <<cfgs[SetMin(hits)]>>

\* the network of the target configuration, when it has a usable Address
TargetNet(target) == IF target = <<>> THEN NoNet ELSE NetOf(target[1].Address)

\* self._cfg_peers(target or {})
TargetPeers(target) == IF target = <<>> THEN <<>> ELSE target[1].Peers

Idle == "idle"

IdleReq ==
  /\ rqArgs = [method |-> "GET", path |-> "/api/handshake", retries |-> 0]
  /\ attempt = 0 /\ backoff = BackoffStart
  /\ rqLog = <<>> /\ rqSlept = <<>>
  /\ rqOut = [st |-> "run", val |-> NoVal, err |-> NoErr]

IdleSys == now = 0 /\ cache = EmptyCache /\ up = <<>> /\ up0 = <<>> /\ upEmbed = FALSE

IdleEns == ens = <<>> /\ ensFault = {}

IdleId == idRec = <<>> /\ idOut = [st |-> "none", val |-> "", err |-> NoErr]

IdleCp == cp = <<>>

IdleDp == dp = <<>>

IdleDl == dl = <<>>

IdleCa == tk = <<>>

IdleAl == al = <<>>

IdleRc == rc = <<>>

IdleNp == np = <<>>

IdleCv == cv = <<>>

IdleFp == fp = <<>>

IdleTt == tt = <<>>

IdleSn == IdleNp /\ IdleCv /\ IdleFp /\ IdleTt

IdleGp == gp = <<>>
IdleNw == nw = <<>>
IdlePd == pd = <<>>
IdleH == IdleGp /\ IdleNw /\ IdlePd

IdleExReq ==
  /\ IdleSys /\ IdleEns /\ IdleId /\ IdleCp /\ IdleDp /\ IdleDl
  /\ IdleCa /\ IdleAl /\ IdleRc
  /\ IdleSn
  /\ IdleH
IdleExEns ==
  /\ IdleReq /\ IdleId /\ IdleCp /\ IdleDp /\ IdleDl /\ upEmbed = FALSE
  /\ IdleCa /\ IdleAl /\ IdleRc
  /\ IdleSn
  /\ IdleH
IdleExId ==
  /\ IdleReq /\ IdleSys /\ IdleEns /\ IdleCp /\ IdleDp /\ IdleDl
  /\ IdleCa /\ IdleAl /\ IdleRc
  /\ IdleSn
  /\ IdleH
IdleExCp ==
  /\ IdleReq /\ IdleEns /\ IdleId /\ IdleDp /\ IdleDl
  /\ IdleCa /\ IdleAl /\ IdleRc
  /\ IdleSn
  /\ IdleH
IdleExDp ==
  /\ IdleReq /\ IdleEns /\ IdleId /\ IdleCp /\ IdleDl
  /\ IdleCa /\ IdleAl /\ IdleRc
  /\ IdleSn
  /\ IdleH
IdleExDl ==
  /\ IdleReq /\ IdleSys /\ IdleEns /\ IdleId /\ IdleCp /\ IdleDp
  /\ IdleCa /\ IdleAl /\ IdleRc
  /\ IdleSn
  /\ IdleH

IdleExCa == IdleReq /\ IdleEns /\ IdleId /\ IdleCp /\ IdleDp /\ IdleDl /\ IdleAl /\ IdleRc /\ IdleSn /\ IdleH
IdleExAl ==
  /\ IdleReq /\ IdleSys /\ IdleEns /\ IdleId /\ IdleCp /\ IdleDp /\ IdleDl
  /\ IdleCa /\ IdleRc
  /\ IdleSn
  /\ IdleH
IdleExNp ==
  /\ IdleReq /\ IdleSys /\ IdleEns /\ IdleId /\ IdleCp /\ IdleDp /\ IdleDl
  /\ IdleCa /\ IdleAl /\ IdleRc /\ IdleCv /\ IdleFp /\ IdleTt
  /\ IdleH
IdleExCv ==
  /\ IdleReq /\ IdleSys /\ IdleEns /\ IdleId /\ IdleCp /\ IdleDp /\ IdleDl
  /\ IdleCa /\ IdleAl /\ IdleRc /\ IdleNp /\ IdleFp /\ IdleTt
  /\ IdleH
IdleExFp ==
  /\ IdleReq /\ IdleSys /\ IdleEns /\ IdleId /\ IdleCp /\ IdleDp /\ IdleDl
  /\ IdleCa /\ IdleAl /\ IdleRc /\ IdleNp /\ IdleCv /\ IdleTt
  /\ IdleH
IdleExTt ==
  /\ IdleReq /\ IdleEns /\ IdleId /\ IdleCp /\ IdleDp /\ IdleDl
  /\ IdleCa /\ IdleAl /\ IdleRc /\ IdleNp /\ IdleCv /\ IdleFp
  /\ IdleH
IdleExFr ==
  /\ IdleReq /\ IdleEns /\ IdleId /\ IdleDl
  /\ IdleCa /\ IdleAl /\ IdleRc /\ IdleNp /\ IdleCv /\ IdleFp
  /\ IdleH
IdleAllButH ==
  /\ IdleReq /\ IdleSys /\ IdleEns /\ IdleId /\ IdleCp /\ IdleDp /\ IdleDl
  /\ IdleCa /\ IdleAl /\ IdleRc /\ IdleSn
IdleExGp ==
  /\ IdleReq /\ IdleEns /\ IdleId /\ IdleCp /\ IdleDp /\ IdleDl
  /\ IdleCa /\ IdleAl /\ IdleRc /\ IdleSn /\ IdleNw /\ IdlePd
IdleExNw ==
  /\ IdleReq /\ cache = EmptyCache /\ up = <<>> /\ up0 = <<>> /\ upEmbed = FALSE
  /\ IdleEns /\ IdleId /\ IdleCp /\ IdleDp /\ IdleDl
  /\ IdleCa /\ IdleAl /\ IdleRc /\ IdleSn /\ IdleGp /\ IdlePd
IdleExPd == IdleAllButH /\ IdleGp /\ IdleNw
IdleExRc == IdleReq /\ IdleEns /\ IdleId /\ IdleCp /\ IdleDp /\ IdleDl /\ IdleCa /\ IdleAl /\ IdleSn /\ IdleH

-----------------------------------------------------------------------------
(* SpecReq: one call of _arequest against every sequence of responses *)

RetriesMax == 3
LongBody == 401

Methods == {"GET", "POST"}
Paths == {"/api/handshake", "/api/addPeers/wg0"}

\* A body of n symbols, the last one a keyword
LongText(n) == [i \in 1..n |-> IF i = n THEN "already" ELSE "x"]

RqResponses ==
  {NetFail(e) : e \in TimeoutExcs \cup {"ConnectError"}}
  \cup {HttpErr(s, <<"gateway">>) : s \in RETRY_STATUSES}
  \cup {HttpErr(s, t) : s \in {400, 404, 500}, t \in {<<>>, <<"bad", "request">>}}
  \cup {HttpErr(400, LongText(n)) : n \in {BodyCut, LongBody}}
  \cup {JsonOk(d) : d \in {NoData, ListData(<<>>)}}
  \cup {JsonFail(<<"Already", "exists">>),
        Resp("ok", 200, <<"[]">>, "list", "absent", <<>>, NoData),
        Resp("ok", 200, <<"<html>">>, "invalid", "absent", <<>>, NoData),
        Resp("ok", 200, <<"{json}">>, "dict", "absent", <<>>, NoData)}

Running == [st |-> "run", val |-> NoVal, err |-> NoErr]

InitReq ==
  /\ rqArgs \in [method : Methods, path : Paths, retries : 0..RetriesMax]
  /\ attempt = 0
  /\ backoff = BackoffStart
  /\ rqLog = <<>>
  /\ rqSlept = <<>>
  /\ rqOut = Running
  /\ IdleExReq

\* One HTTP attempt: attempt += 1, the request, and what the loop does with
\* the response.
RqAttempt ==
  /\ rqOut.st = "run"
  /\ \E r \in RqResponses :
       LET n == attempt + 1
           s == AreqStep(rqArgs.method, rqArgs.path, n, rqArgs.retries, r)
       IN  /\ attempt' = n
           /\ rqLog' = Append(rqLog, r)
           /\ IF s.act = "retry"
                THEN /\ rqSlept' = Append(rqSlept, backoff)
                     /\ backoff' = NextBackoff(backoff)
                     /\ rqOut' = rqOut
                ELSE /\ rqSlept' = rqSlept
                     /\ backoff' = backoff
                     /\ rqOut' = [st |-> IF s.act = "return" THEN "returned" ELSE "raised",
                                  val |-> s.val, err |-> s.err]
  /\ UNCHANGED <<rqArgs, exReq>>

NextReq == RqAttempt

SpecReq == InitReq /\ [][NextReq]_vars

Retryable(r) ==
  r.net \in TimeoutExcs \/ (r.net = "ok" /\ r.status \in RETRY_STATUSES)

GoodJson(r) ==
  /\ r.net = "ok" /\ r.status >= 200 /\ r.status < 300
  /\ r.json # "invalid"
  /\ ~(r.json = "dict" /\ r.flag = "false")

NonRetryErr(r) == r.net = "ok" /\ r.status >= 400 /\ r.status \notin RETRY_STATUSES

\* C4: one call of _arequest makes at most retries + 1 HTTP attempts (3 with
\* the default retries); and when every attempt before the last ended in
\* 502/503/504 or a connect/read timeout, there were at most `retries` of
\* them, and the last attempt got a 2xx JSON body without a failure flag,
\* the call has returned that body.
C4_RetryBound ==
  /\ attempt = Len(rqLog)
  /\ attempt <= rqArgs.retries + 1
  /\ (rqArgs.retries = MAX_RETRIES => attempt <= 3)
  /\ LET k == Len(rqLog) - 1
     IN  (/\ k >= 0 /\ k <= rqArgs.retries
          /\ \A i \in 1..k : Retryable(rqLog[i])
          /\ GoodJson(rqLog[k + 1]))
         => (rqOut.st = "returned" /\ rqOut.val = rqLog[k + 1])

\* Two 503 responses, then a 200 whose body is returned by the third attempt
C4_Witness ==
  /\ rqArgs.retries = MAX_RETRIES
  /\ Len(rqLog) = 3
  /\ rqLog[1].status = 503 /\ rqLog[2].status = 503
  /\ GoodJson(rqLog[3])
  /\ rqOut.st = "returned" /\ rqOut.val = rqLog[3]

-----------------------------------------------------------------------------
(* SpecEnsure: two tasks calling ensure_config(EnsName, ...) on one client *)

MaxNow == 4

T == {1, 2}
EnsName == "wg0"
CfgListPath == "/api/getWireguardConfigurations"
CfgAddPath == "/api/addWireguardConfiguration"

OkOut == [st |-> "ok", err |-> NoErr]
NoOut == [st |-> "none", err |-> NoErr]
Raised(err) == [st |-> "raised", err |-> err]

\* get_configs: items = data.get("data") or [] (a null or absent data is [])
Items(r) == IF r.data.kind = "list" THEN r.data.items ELSE <<>>

\* What the dashboard may answer to GET getWireguardConfigurations
ListResponses(u) ==
  {JsonOk(ListData(u)), HttpErr(503, <<"unavailable">>), HttpErr(500, <<"internal">>)}

\* The dashboard's rejections of a duplicate create
AlreadyResponses ==
  {JsonFail(<<"Already", "exists">>), HttpErr(400, <<"already", "exists">>)}

\* Failures of a create that leave the dashboard unchanged
CreateFaults == {HttpErr(503, <<"unavailable">>), HttpErr(500, <<"internal">>)}

\* add_config, after _arequest returned: self._cache.pop(configs key)
AddConfigDone_KeepsCache(c) == c

AddConfigDone(c) == CachePop(c, CfgKey)

\* ensure_config's handler of a WGDError of add_config: swallow "already"
EnsureCreateFailed_NoCheck(err) == Raised(err)

EnsureCreateFailed(err) ==
  IF ContainsLower(err.msg, "already") THEN OkOut ELSE Raised(err)

\* add_config: the POST is sent (first attempt of its _arequest)
EnsSendCreate(e) ==
  [e EXCEPT !.pc = "post", !.attempt = 1, !.wire = NoVal, !.posts = @ + 1]

\* ensure_config once `existing` is known: return, or go on to add_config
EnsAfterList(e, existing) ==
  IF EnsName \in existing
    THEN [e EXCEPT !.pc = "done", !.out = OkOut]
    ELSE EnsSendCreate(e)

InitEnsure ==
  /\ IdleExEns
  /\ now = 0
  /\ up \in {<<>>, <<Cfg("wg1")>>, <<Cfg(EnsName)>>}
  /\ up0 = up
  /\ cache \in {EmptyCache, CacheSet(EmptyCache, CfgKey, 0, up)}
  /\ ens = [t \in T |-> [pc |-> Idle, attempt |-> 0, wire |-> NoVal,
                          out |-> NoOut, posts |-> 0, after |-> {}]]
  /\ ensFault = {}

\* ensure_config up to its first await: get_configs answers from the cache,
\* or sends the GET.
EnsCall(t) ==
  /\ ens[t].pc = Idle
  /\ LET e == [ens[t] EXCEPT !.after = {u \in T : ens[u].pc = "done"}]
     IN  IF CacheHit(cache, CfgKey, CFG_TTL, now)
           THEN /\ ens' = [ens EXCEPT ![t] = EnsAfterList(e, CfgNames(cache[CfgKey].val))]
                /\ cache' = cache
           ELSE /\ ens' = [ens EXCEPT ![t] = [e EXCEPT !.pc = "list", !.attempt = 1,
                                                       !.wire = NoVal]]
                /\ cache' = CacheAfterGet(cache, CfgKey, CFG_TTL, now)
  /\ UNCHANGED <<exEns, now, up, up0, ensFault>>

\* The dashboard answers the list request of task t
EnsServeList(t) ==
  /\ ens[t].pc = "list" /\ ens[t].wire = NoVal
  /\ \E r \in ListResponses(up) :
       /\ ens' = [ens EXCEPT ![t].wire = r]
       /\ ensFault' = IF r.status = 200 THEN ensFault ELSE ensFault \cup {"list"}
  /\ UNCHANGED <<exEns, now, cache, up, up0>>

\* get_configs handles the response (one pass of _arequest's loop), stores
\* the list, and ensure_config goes on.
EnsRecvList(t) ==
  /\ ens[t].pc = "list" /\ ens[t].wire # NoVal
  /\ LET e == ens[t]
         s == AreqStep("GET", CfgListPath, e.attempt, MAX_RETRIES, e.wire)
     IN  CASE s.act = "retry" ->
                /\ ens' = [ens EXCEPT ![t].attempt = @ + 1, ![t].wire = NoVal]
                /\ cache' = cache
           [] s.act = "return" ->
                /\ cache' = CacheSet(cache, CfgKey, now, Items(s.val))
                /\ ens' = [ens EXCEPT ![t] = EnsAfterList(e, CfgNames(Items(s.val)))]
           [] s.act = "raise" ->
                /\ ens' = [ens EXCEPT ![t] = EnsAfterList(e, {})]
                /\ cache' = cache
  /\ UNCHANGED <<exEns, now, up, up0, ensFault>>

\* The dashboard serves the create request of task t: it creates the
\* configuration and answers (or the answer is lost: a read timeout), it
\* rejects a duplicate, or it fails without creating.
EnsServeCreate(t) ==
  /\ ens[t].pc = "post" /\ ens[t].wire = NoVal
  /\ \/ /\ EnsName \notin CfgNames(up)
        /\ up' = Append(up, Cfg(EnsName))
        /\ \/ ens' = [ens EXCEPT ![t].wire = JsonOk(NoData)] /\ ensFault' = ensFault
           \/ ens' = [ens EXCEPT ![t].wire = NetFail("ReadTimeout")]
              /\ ensFault' = ensFault \cup {"create"}
     \/ /\ EnsName \in CfgNames(up)
        /\ \E r \in AlreadyResponses : ens' = [ens EXCEPT ![t].wire = r]
        /\ UNCHANGED <<up, ensFault>>
     \/ /\ \E r \in CreateFaults : ens' = [ens EXCEPT ![t].wire = r]
        /\ ensFault' = ensFault \cup {"create"}
        /\ up' = up
  /\ UNCHANGED <<exEns, now, cache, up0>>

\* add_config handles the response; ensure_config handles its error
EnsRecvCreate(t) ==
  /\ ens[t].pc = "post" /\ ens[t].wire # NoVal
  /\ LET e == ens[t]
         s == AreqStep("POST", CfgAddPath, e.attempt, MAX_RETRIES, e.wire)
     IN  CASE s.act = "retry" ->
                /\ ens' = [ens EXCEPT ![t].attempt = @ + 1, ![t].wire = NoVal,
                                      ![t].posts = @ + 1]
                /\ cache' = cache
           [] s.act = "return" ->
                /\ cache' = AddConfigDone(cache)
                /\ ens' = [ens EXCEPT ![t].pc = "done", ![t].out = OkOut]
           [] s.act = "raise" ->
                /\ ens' = [ens EXCEPT ![t].pc = "done",
                                      ![t].out = EnsureCreateFailed(s.err)]
                /\ cache' = cache
  /\ UNCHANGED <<exEns, now, up, up0, ensFault>>

\* Time passes
Tick ==
  /\ now < MaxNow
  /\ now' = now + 1
  /\ UNCHANGED exNow

NextEnsure ==
  \/ \E t \in T : EnsCall(t)
  \/ \E t \in T : EnsServeList(t)
  \/ \E t \in T : EnsRecvList(t)
  \/ \E t \in T : EnsServeCreate(t)
  \/ \E t \in T : EnsRecvCreate(t)
  \/ Tick

SpecEnsure == InitEnsure /\ [][NextEnsure]_vars

EnsDone(t) == ens[t].pc = "done"

\* C1: from a dashboard without EnsName that answers every request and lists
\* what it holds, two ensure_config calls one after the other send exactly one
\* create request in all; the second call sends none and returns without
\* error (whatever the time between the calls, inside the cache TTL or not).
C1_EnsureTwice ==
  \A a, b \in T :
    (/\ a # b /\ EnsDone(a) /\ EnsDone(b) /\ a \in ens[b].after
     /\ EnsName \notin CfgNames(up0) /\ ensFault = {})
    => /\ ens[a].posts + ens[b].posts = 1
       /\ ens[b].posts = 0
       /\ ens[a].out = OkOut /\ ens[b].out = OkOut

\* Both calls done within the same second: the second ran inside the TTL
C1_Witness ==
  /\ EnsDone(1) /\ EnsDone(2) /\ 1 \in ens[2].after
  /\ up0 = <<>> /\ ensFault = {} /\ now = 0
  /\ ens[1].posts = 1 /\ ens[2].posts = 0 /\ ens[2].out = OkOut

\* C2: in every interleaving of two ensure_config calls against a dashboard
\* that had no EnsName and whose only create failures are rejections of a
\* duplicate, both calls return without error and the dashboard holds exactly
\* one EnsName; and a call whose create ended in an error without "already"
\* raises that error.
C2_ConcurrentEnsure ==
  /\ (/\ EnsDone(1) /\ EnsDone(2)
      /\ EnsName \notin CfgNames(up0) /\ "create" \notin ensFault)
     => /\ ens[1].out = OkOut /\ ens[2].out = OkOut
        /\ Cardinality({i \in DOMAIN up : CfgName(up[i]) = EnsName}) = 1
  /\ \A t \in T :
       (EnsDone(t) /\ ens[t].posts > 0) =>
         LET s == ArequestLoop("POST", CfgAddPath, ens[t].attempt, MAX_RETRIES, ens[t].wire)
         IN  (s.act = "raise" /\ ~ContainsLower(s.err.msg, "already"))
               => ens[t].out = Raised(s.err)

\* Both calls raced to the create; the second was rejected as a duplicate
C2_Witness ==
  /\ EnsDone(1) /\ EnsDone(2)
  /\ ens[1].after = {} /\ ens[2].after = {}
  /\ up0 = <<>> /\ ensFault = {}
  /\ ens[1].posts = 1 /\ ens[2].posts = 1
  /\ ens[2].wire \in AlreadyResponses
  /\ ens[1].out = OkOut /\ ens[2].out = OkOut

-----------------------------------------------------------------------------
(* SpecIdent: create_peer's identifier for every shape of the peer record *)

IdentKeys == {ID_KEYS[i] : i \in DOMAIN ID_KEYS} \cup {PK_KEYS[i] : i \in DOMAIN PK_KEYS}
IdentVals == {Null, Str(""), Str("a"), Str("b"), Num(0)}
IdentRecs == UNION {[K -> IdentVals] : K \in SUBSET IdentKeys}

InitIdent ==
  /\ IdleExId
  /\ idRec \in IdentRecs
  /\ idOut = [st |-> "none", val |-> "", err |-> NoErr]

\* create_peer, lines 549-555
IdentApply ==
  /\ idOut.st = "none"
  /\ idOut' = CreatePeerResult(idRec)
  /\ UNCHANGED <<idRec, exId>>

NextIdent == IdentApply

SpecIdent == InitIdent /\ [][NextIdent]_vars

\* The non-empty public keys and the ids a record carries
RecPks(rec) ==
  {PyStr(rec[k]) : k \in {x \in IdentKeys \cap DOMAIN rec :
                            x \in {PK_KEYS[i] : i \in DOMAIN PK_KEYS} /\ Truthy(rec[x])}}
RecIds(rec) ==
  {PyStr(rec[k]) : k \in {x \in IdentKeys \cap DOMAIN rec :
                            x \in {ID_KEYS[i] : i \in DOMAIN ID_KEYS} /\ rec[x].t # "null"}}

\* C9: create_peer returns a public key of the record whenever the record
\* carries a non-empty one; it returns an id of the record only when the
\* record carries no public key; it raises WGDError when the record carries
\* neither a public key nor a non-empty id; and it never returns "".
C9_Identifier ==
  idOut.st # "none" =>
    /\ (RecPks(idRec) # {} => (idOut.st = "ok" /\ idOut.val \in RecPks(idRec)))
    /\ ((idOut.st = "ok" /\ RecPks(idRec) = {}) => idOut.val \in RecIds(idRec))
    /\ ((RecPks(idRec) = {} /\ RecIds(idRec) \subseteq {""})
          => (idOut.st = "raised" /\ idOut.err.cls = "WGDError"))
    /\ (idOut.st = "ok" => idOut.val # "")

\* A record with both an id and a public key: the public key is returned
C9_Witness ==
  /\ "id" \in DOMAIN idRec /\ idRec["id"] = Str("a")
  /\ "public_key" \in DOMAIN idRec /\ idRec["public_key"] = Str("b")
  /\ "publicKey" \in DOMAIN idRec /\ idRec["publicKey"] = Str("")
  /\ idOut.st = "ok" /\ idOut.val = "b"

-----------------------------------------------------------------------------
(* SpecPeer: one call of create_peer(CpConfig, name, allowed_ip = cp.ip0)  *)
(* against a dashboard that may accept, reject, fail or time out.  The     *)
(* addPeers POSTs go through the retry loop attempt by attempt; so does    *)
(* the allocator's get_configs.  The allocator's get_peers is one request  *)
(* standing for its five endpoint variants: it yields the peer list, or    *)
(* [] when every variant fails.                                            *)

InitPeersMax == 2

CpConfig == "wg0"
AddPeersPath == "/api/addPeers/wg0"
PeersPath == "/api/getPeers/wg0"
CpSubnet == Addr(IP(10, 0, 5, 1), 29)

\* The peer the dashboard creates as its n-th, with address ip
NewPeer(n, ip) ==
  [id |-> Str("pk" \o ToString(n)), publicKey |-> Str("pk" \o ToString(n)),
   allowed_ip |-> Cidr(ip)]

RECURSIVE InitPeers(_)
InitPeers(k) ==
  IF k = 0 THEN <<>> ELSE Append(InitPeers(k - 1), NewPeer(k, IP(10, 0, 5, 1) + k))

\* The configuration list as the dashboard sends it
ListView(u, embed) ==
  [i \in DOMAIN u |-> IF embed THEN u[i] ELSE [u[i] EXCEPT !.Peers = <<>>]]

\* The address the dashboard gives a peer created without allowed_ip
UpstreamPick(peers) == SetMax(UsedIps(peers) \cup {IP(10, 0, 5, 1)}) + 1

NoFail == [kind |-> "none", err |-> NoErr]
EmptyDataErr == WGDError(<<"Peer was not created by API (empty 'data').">>)

CpIdle ==
  [pc |-> Idle, ip0 |-> 0, attempt |-> 0, wire |-> NoVal, body |-> 0,
   first |-> NoFail, second |-> NoFail, cfgs |-> <<>>, sug |-> 0,
   out |-> [st |-> "none", val |-> "", err |-> NoErr],
   reqs |-> <<>>, posts |-> 0]

InitPeer ==
  /\ IdleExCp
  /\ now = 0
  /\ upEmbed \in BOOLEAN
  /\ \E k \in 0..InitPeersMax, a \in {CpSubnet, NoAddr} :
       up = <<[Cfg(CpConfig) EXCEPT !.Address = a, !.Peers = InitPeers(k)]>>
  /\ up0 = up
  /\ cache \in {EmptyCache, CacheSet(EmptyCache, CfgKey, 0, ListView(up, upEmbed))}
  /\ \E ip \in {0, IP(10, 0, 5, 2), IP(10, 0, 5, 6)} : cp = [CpIdle EXCEPT !.ip0 = ip]

\* add_peers: the POST is sent (first attempt of its _arequest)
CpSendAdd(c, pc, ip) ==
  [c EXCEPT !.pc = pc, !.attempt = 1, !.wire = NoVal, !.body = ip,
            !.reqs = Append(@, ip), !.posts = @ + 1]

\* create_peer, first half: the peer body, then add_peers
CpCall ==
  /\ cp.pc = Idle
  /\ cp' = CpSendAdd(cp, "add1", cp.ip0)
  /\ UNCHANGED <<exCp, now, cache, up>>

\* The dashboard serves an addPeers request: it adds the peer and answers
\* with the record, with no data, or the answer is lost; or it rejects the
\* address; or it fails otherwise; or it is unavailable.
CpServeAdd ==
  /\ cp.pc \in {"add1", "add2"} /\ cp.wire = NoVal
  /\ LET peers == up[1].Peers
         ip == IF cp.body # 0 THEN cp.body ELSE UpstreamPick(peers)
         rec == NewPeer(Len(peers) + 1, ip)
     IN  \/ /\ ip \notin UsedIps(peers)
            /\ up' = [up EXCEPT ![1].Peers = Append(@, rec)]
            /\ \E r \in {JsonOk(ListData(<<rec>>)), JsonOk(NoData), NetFail("ReadTimeout")} :
                 cp' = [cp EXCEPT !.wire = r]
         \/ /\ \E r \in {JsonFail(<<"ALLOWED_IP", "missing or taken">>),
                         JsonFail(<<"Configuration", "does not exist">>),
                         HttpErr(503, <<"unavailable">>)} :
                 cp' = [cp EXCEPT !.wire = r]
            /\ up' = up
  /\ UNCHANGED <<exCp, now, cache>>

\* _suggest_next_allowed_ip from `raw_peers` on, then the second add_peers
CpSuggested(c, raw_peers) ==
  LET target == TargetOf(c.cfgs, CpConfig)
      next_ip == SuggestFrom(TargetNet(target), UsedIps(raw_peers))
  IN  CpSendAdd([c EXCEPT !.sug = next_ip], "add2", next_ip)

\* _suggest_next_allowed_ip once get_configs returned cfgs: the embedded
\* peers, or get_peers (from the cache, or by a request)
CpHaveCfgs(c, cfgs, ch, t) ==
  LET c1 == [c EXCEPT !.cfgs = cfgs]
      emb == TargetPeers(TargetOf(cfgs, CpConfig))
  IN  IF emb # <<>> THEN [cp |-> CpSuggested(c1, emb), cache |-> ch]
      ELSE IF CacheHit(ch, PeersKey(CpConfig), PEERS_TTL, t)
        THEN [cp |-> CpSuggested(c1, ch[PeersKey(CpConfig)].val), cache |-> ch]
      ELSE [cp |-> [c1 EXCEPT !.pc = "sg_peers", !.attempt = 1, !.wire = NoVal],
            cache |-> CacheAfterGet(ch, PeersKey(CpConfig), PEERS_TTL, t)]

\* add_peer_minimal falls through to the allocator: get_configs first
CpFallback(c, ch, t) ==
  IF CacheHit(ch, CfgKey, CFG_TTL, t)
    THEN CpHaveCfgs(c, ch[CfgKey].val, ch, t)
    ELSE [cp |-> [c EXCEPT !.pc = "sg_cfgs", !.attempt = 1, !.wire = NoVal],
          cache |-> CacheAfterGet(ch, CfgKey, CFG_TTL, t)]

CpFinish(c, out) == [c EXCEPT !.pc = "done", !.out = out]

\* add_peer_minimal's handler of the first add_peers' WGDError
FirstFailed(c, err, ch, t) ==
  IF ~ContainsLower(err.msg, "allowed_ip")
    THEN [cp |-> CpFinish([c EXCEPT !.first = [kind |-> "err", err |-> err]],
                          [st |-> "raised", val |-> "", err |-> err]),
          cache |-> ch]
    ELSE CpFallback([c EXCEPT !.first = [kind |-> "err", err |-> err]], ch, t)

\* add_peers of the call c handles the response c.wire, with the cache ch
\* at time t; add_peer_minimal and create_peer go on
CpAddHandled(c, ch, t) ==
  LET s == AreqStep("POST", AddPeersPath, c.attempt, MAX_RETRIES, c.wire)
      popped == CachePop(ch, PeersKey(CpConfig))
      created == Items(s.val)
      raisedOut == [st |-> "raised", val |-> "", err |-> s.err]
  IN  CASE s.act = "retry" ->
             [cp |-> [c EXCEPT !.attempt = @ + 1, !.wire = NoVal, !.posts = @ + 1],
              cache |-> ch]
        [] s.act = "return" /\ created # <<>> ->
             [cp |-> CpFinish(IF c.pc = "add1"
                                THEN [c EXCEPT !.first = [kind |-> "created", err |-> NoErr]]
                                ELSE c,
                              CreatePeerResult(created[1])),
              cache |-> popped]
        [] s.act = "return" /\ created = <<>> /\ c.pc = "add1" ->
             CpFallback([c EXCEPT !.first = [kind |-> "empty", err |-> NoErr]],
                        popped, t)
        [] s.act = "return" /\ created = <<>> /\ c.pc = "add2" ->
             [cp |-> CpFinish([c EXCEPT !.second = [kind |-> "empty", err |-> NoErr]],
                              [st |-> "raised", val |-> "", err |-> EmptyDataErr]),
              cache |-> popped]
        [] s.act = "raise" /\ c.pc = "add1" -> FirstFailed(c, s.err, ch, t)
        [] s.act = "raise" /\ c.pc = "add2" ->
             [cp |-> CpFinish([c EXCEPT !.second = [kind |-> "err", err |-> s.err]],
                              raisedOut),
              cache |-> ch]

CpRecvAdd ==
  /\ cp.pc \in {"add1", "add2"} /\ cp.wire # NoVal
  /\ LET nxt == CpAddHandled(cp, cache, now)
     IN  cp' = nxt.cp /\ cache' = nxt.cache
  /\ UNCHANGED <<exCp, now, up>>

\* The dashboard answers the allocator's list request
CpServeCfgs ==
  /\ cp.pc = "sg_cfgs" /\ cp.wire = NoVal
  /\ \E r \in ListResponses(ListView(up, upEmbed)) : cp' = [cp EXCEPT !.wire = r]
  /\ UNCHANGED <<exCp, now, cache, up>>

\* get_configs of the call c handles the response; its error leaves
\* create_peer
CpCfgsHandled(c, ch, t) ==
  LET s == AreqStep("GET", CfgListPath, c.attempt, MAX_RETRIES, c.wire)
  IN  CASE s.act = "retry" ->
             [cp |-> [c EXCEPT !.attempt = @ + 1, !.wire = NoVal], cache |-> ch]
        [] s.act = "return" ->
             CpHaveCfgs(c, Items(s.val), CacheSet(ch, CfgKey, t, Items(s.val)), t)
        [] s.act = "raise" ->
             [cp |-> CpFinish(c, [st |-> "raised", val |-> "", err |-> s.err]),
              cache |-> ch]

CpRecvCfgs ==
  /\ cp.pc = "sg_cfgs" /\ cp.wire # NoVal
  /\ LET nxt == CpCfgsHandled(cp, cache, now)
     IN  cp' = nxt.cp /\ cache' = nxt.cache
  /\ UNCHANGED <<exCp, now, up>>

\* The dashboard answers get_peers: the list, or every variant fails
CpServePeers ==
  /\ cp.pc = "sg_peers" /\ cp.wire = NoVal
  /\ \E r \in {JsonOk(ListData(up[1].Peers)), HttpErr(500, <<"internal">>)} :
       cp' = [cp EXCEPT !.wire = r]
  /\ UNCHANGED <<exCp, now, cache, up>>

\* get_peers of the call c stores and returns the list ([] after a failure)
CpPeersHandled(c, ch, t) ==
  LET peers == IF c.wire.status = 200 THEN Items(c.wire) ELSE <<>>
  IN  [cp |-> CpSuggested(c, peers),
       cache |-> CacheSet(ch, PeersKey(CpConfig), t, peers)]

CpRecvPeers ==
  /\ cp.pc = "sg_peers" /\ cp.wire # NoVal
  /\ LET nxt == CpPeersHandled(cp, cache, now)
     IN  cp' = nxt.cp /\ cache' = nxt.cache
  /\ UNCHANGED <<exCp, now, up>>

NextPeer ==
  \/ CpCall
  \/ CpServeAdd
  \/ CpRecvAdd
  \/ CpServeCfgs
  \/ CpRecvCfgs
  \/ CpServePeers
  \/ CpRecvPeers
  \/ Tick

SpecPeer == InitPeer /\ [][NextPeer]_vars

\* The peers this call has added to the dashboard so far
CpAdded == Len(up[1].Peers) - Len(up0[1].Peers)

\* text `part` occurs in text `msg`
Mentions(msg, part) ==
  \E i \in 1..(Len(msg) - Len(part) + 1) : SubSeq(msg, i, i + Len(part) - 1) = part

\* C3: one call of create_peer adds at most one peer to the configuration,
\* whatever responses, 502/503/504 statuses and timeouts occur.
C3_AtMostOnePeer == CpAdded <= 1

\* C7: create_peer sends a second addPeers request only when the first was
\* rejected with an error about allowed_ip, then exactly one more, carrying
\* the allocator's suggestion; a first request that failed otherwise is
\* raised without a second one, and a first request the dashboard accepted
\* is never followed by a second one.
C7_SecondOnlyAfterRejection ==
  /\ Len(cp.reqs) <= 2
  /\ Len(cp.reqs) = 2 =>
       /\ cp.first.kind = "err" /\ ContainsLower(cp.first.err.msg, "allowed_ip")
       /\ cp.reqs[2] = cp.sug
  /\ (cp.first.kind = "err" /\ ~ContainsLower(cp.first.err.msg, "allowed_ip")) =>
       /\ Len(cp.reqs) = 1
       /\ cp.pc = "done" /\ cp.out.st = "raised" /\ cp.out.err = cp.first.err
  /\ cp.first.kind \in {"created", "empty"} => Len(cp.reqs) = 1

\* C8: when the first attempt and the address-fallback attempt both failed,
\* the error the caller receives lists the failure of each of them.
C8_AggregateError ==
  (cp.pc = "done" /\ cp.first.kind = "err" /\ cp.second.kind = "err") =>
    /\ cp.out.st = "raised"
    /\ Mentions(cp.out.err.msg, cp.first.err.msg)
    /\ Mentions(cp.out.err.msg, cp.second.err.msg)

-----------------------------------------------------------------------------
(* SpecDelete: one call of delete_peer(identifier), without a config,      *)
(* against a dashboard holding configurations wg1 and wg0 (in that order,  *)
(* optionally behind an entry without a name).  get_configs and the        *)
(* deletePeers POST go through the retry loop attempt by attempt; each     *)
(* get_peers of the search is one request standing for its five endpoint   *)
(* variants: it yields the peer list, or [] when every variant fails.      *)

\* SET.wgd_interface
WGD_INTERFACE == "wg0"

DeletePeersPath(config) == "/api/deletePeers/" \o config

PeerA == [id |-> Str("idA"), publicKey |-> Str("pkA")]
PeerB == [id |-> Num(7), public_key |-> Str("pkB")]
PeerLists == {<<>>, <<PeerA>>, <<PeerB>>, <<PeerB, PeerA>>}
Needles == {"pkA", "7", "zz"}

\* self._peer_id(p) == needle or self._peer_public_key(p) == needle
PeerMatches(p, needle) == PeerId(p) = Some(needle) \/ PeerPublicKey(p) = Some(needle)

\* the for-loop over peers: some record of the list matches
ListMatches(peers, needle) == \E i \in DOMAIN peers : PeerMatches(peers[i], needle)

NoFound == [ok |-> FALSE, name |-> ""]
Found(name) == [ok |-> TRUE, name |-> name]

DpIdle ==
  [pc |-> Idle, needle |-> "", attempt |-> 0, wire |-> NoVal, cfgs |-> <<>>,
   idx |-> 0, found |-> NoFound, lost |-> FALSE, acc |-> FALSE,
   reqs |-> <<>>, posts |-> <<>>, failed |-> NoErr,
   out |-> [st |-> "none", err |-> NoErr]]

InitDelete ==
  /\ IdleExDp
  /\ now = 0
  /\ upEmbed \in BOOLEAN
  /\ \E head \in {<<>>, <<[Cfg("") EXCEPT !.Peers = <<PeerA>>]>>}, p1 \in PeerLists, p0 \in PeerLists :
       up = head \o <<[Cfg("wg1") EXCEPT !.Peers = p1], [Cfg("wg0") EXCEPT !.Peers = p0]>>
  /\ up0 = up
  /\ cache \in {EmptyCache, CacheSet(EmptyCache, CfgKey, 0, ListView(up, upEmbed))}
  /\ \E n \in Needles : dp = [DpIdle EXCEPT !.needle = n]

\* delete_peers: the POST is sent (first attempt of its _arequest)
DpSendDelete(d, config) ==
  [d EXCEPT !.pc = "del", !.attempt = 1, !.wire = NoVal,
            !.reqs = Append(@, config), !.posts = Append(@, config)]

\* delete_peer once _find_peer_info returned `found`
DpResolved(d, found) ==
  LET cfg == IF found.ok THEN found.name ELSE WGD_INTERFACE
  IN  DpSendDelete([d EXCEPT !.found = found], cfg)

\* _find_peer_info's loop from the i-th configuration on (DpScan), and its
\* inner loop over the peers obtained for the i-th one (DpLook)
RECURSIVE DpScan(_, _, _, _)
RECURSIVE DpLook(_, _, _, _, _)
DpScan(d, i, ch, t) ==
  IF i > Len(d.cfgs) THEN [dp |-> DpResolved(d, NoFound), cache |-> ch]
  ELSE LET name == CfgName(d.cfgs[i])
           peers == d.cfgs[i].Peers
       IN  IF name = "" THEN DpScan(d, i + 1, ch, t)
           ELSE IF peers # <<>> THEN DpLook(d, i, peers, ch, t)
           ELSE IF CacheHit(ch, PeersKey(name), PEERS_TTL, t)
             THEN DpLook(d, i, ch[PeersKey(name)].val, ch, t)
           ELSE [dp |-> [d EXCEPT !.pc = "peers", !.idx = i, !.attempt = 1, !.wire = NoVal],
                 cache |-> CacheAfterGet(ch, PeersKey(name), PEERS_TTL, t)]

DpLook(d, i, peers, ch, t) ==
  IF ListMatches(peers, d.needle)
    THEN [dp |-> DpResolved(d, Found(CfgName(d.cfgs[i]))), cache |-> ch]
    ELSE DpScan(d, i + 1, ch, t)

\* delete_peer, up to its first await: get_configs from the cache or sent
DpCall ==
  /\ dp.pc = Idle
  /\ LET nxt == IF CacheHit(cache, CfgKey, CFG_TTL, now)
                  THEN DpScan([dp EXCEPT !.cfgs = cache[CfgKey].val], 1, cache, now)
                  ELSE [dp |-> [dp EXCEPT !.pc = "cfgs", !.attempt = 1, !.wire = NoVal],
                        cache |-> CacheAfterGet(cache, CfgKey, CFG_TTL, now)]
     IN  dp' = nxt.dp /\ cache' = nxt.cache
  /\ UNCHANGED <<exDp, now, up>>

\* The dashboard answers the list request
DpServeCfgs ==
  /\ dp.pc = "cfgs" /\ dp.wire = NoVal
  /\ \E r \in ListResponses(ListView(up, upEmbed)) : dp' = [dp EXCEPT !.wire = r]
  /\ UNCHANGED <<exDp, now, cache, up>>

\* get_configs handles the response; _find_peer_info starts its loop
DpRecvCfgs ==
  /\ dp.pc = "cfgs" /\ dp.wire # NoVal
  /\ LET s == AreqStep("GET", CfgListPath, dp.attempt, MAX_RETRIES, dp.wire)
         nxt ==
           CASE s.act = "retry" ->
                  [dp |-> [dp EXCEPT !.attempt = @ + 1, !.wire = NoVal], cache |-> cache]
             [] s.act = "return" ->
                  DpScan([dp EXCEPT !.cfgs = Items(s.val)], 1,
                         CacheSet(cache, CfgKey, now, Items(s.val)), now)
             [] s.act = "raise" ->
                  [dp |-> [dp EXCEPT !.pc = "done", !.out = Raised(s.err)], cache |-> cache]
     IN  dp' = nxt.dp /\ cache' = nxt.cache
  /\ UNCHANGED <<exDp, now, up>>

\* The dashboard answers get_peers of the configuration the search is at:
\* the list, or every variant fails
DpServePeers ==
  /\ dp.pc = "peers" /\ dp.wire = NoVal
  /\ LET name == CfgName(dp.cfgs[dp.idx])
         u == TargetPeers(TargetOf(up, name))
     IN  \E r \in {JsonOk(ListData(u)), HttpErr(500, <<"internal">>)} :
           dp' = [dp EXCEPT !.wire = r]
  /\ UNCHANGED <<exDp, now, cache, up>>

\* get_peers stores and returns the list ([] after a failure); the search
\* goes on
DpRecvPeers ==
  /\ dp.pc = "peers" /\ dp.wire # NoVal
  /\ LET name == CfgName(dp.cfgs[dp.idx])
         ok == dp.wire.status = 200
         peers == IF ok THEN Items(dp.wire) ELSE <<>>
         nxt == DpLook([dp EXCEPT !.lost = @ \/ ~ok], dp.idx, peers,
                       CacheSet(cache, PeersKey(name), now, peers), now)
     IN  dp' = nxt.dp /\ cache' = nxt.cache
  /\ UNCHANGED <<exDp, now, up>>

\* The dashboard serves a deletePeers request: it removes the peer and
\* answers (or the answer is lost); or it knows no such peer; or it fails.
DpServeDelete ==
  /\ dp.pc = "del" /\ dp.wire = NoVal
  /\ LET config == dp.reqs[Len(dp.reqs)]
         i == CHOOSE j \in DOMAIN up : CfgName(up[j]) = config
         keep(p) == ~PeerMatches(p, dp.needle)
     IN  \/ /\ ListMatches(up[i].Peers, dp.needle)
            /\ up' = [up EXCEPT ![i].Peers = SelectSeq(@, keep)]
            /\ \E r \in {JsonOk(NoData), NetFail("ReadTimeout")} :
                 dp' = [dp EXCEPT !.wire = r, !.acc = TRUE]
         \/ /\ ~ListMatches(up[i].Peers, dp.needle)
            /\ up' = up
            /\ dp' = [dp EXCEPT !.wire = JsonFail(<<"Peer", "does not exist">>)]
         \/ /\ up' = up
            /\ \E r \in {HttpErr(503, <<"unavailable">>), HttpErr(500, <<"internal">>)} :
                 dp' = [dp EXCEPT !.wire = r]
  /\ UNCHANGED <<exDp, now, cache>>

\* delete_peers handles a response; delete_peer returns True
DpRecvDelete ==
  /\ dp.pc = "del" /\ dp.wire # NoVal
  /\ LET config == dp.reqs[Len(dp.reqs)]
         s == AreqStep("POST", DeletePeersPath(config), dp.attempt, MAX_RETRIES, dp.wire)
     IN  CASE s.act = "retry" ->
                /\ dp' = [dp EXCEPT !.attempt = @ + 1, !.wire = NoVal,
                                    !.posts = Append(@, config)]
                /\ cache' = cache
           [] s.act = "return" ->
                /\ dp' = [dp EXCEPT !.pc = "done", !.out = OkOut]
                /\ cache' = CachePop(cache, PeersKey(config))
           [] s.act = "raise" ->
                /\ dp' = [dp EXCEPT !.pc = "done", !.failed = s.err, !.out = Raised(s.err)]
                /\ cache' = cache
  /\ UNCHANGED <<exDp, now, up>>

NextDelete ==
  \/ DpCall
  \/ DpServeCfgs
  \/ DpRecvCfgs
  \/ DpServePeers
  \/ DpRecvPeers
  \/ DpServeDelete
  \/ DpRecvDelete
  \/ Tick

SpecDelete == InitDelete /\ [][NextDelete]_vars

\* The configurations of the dashboard, at the time of the call, that have
\* a name and a peer matching the identifier
DpHolders ==
  {i \in DOMAIN up0 : CfgName(up0[i]) # "" /\ ListMatches(up0[i].Peers, dp.needle)}

\* C10: delete_peer(identifier) without a config sends exactly one
\* deletePeers request, to the first configuration in list order whose peer
\* list holds a peer with that id or public key; when the request fails the
\* error is raised and no other configuration gets a delete request; True
\* is returned only after the dashboard accepted the delete.
C10_DeleteResolved ==
  /\ Len(dp.reqs) <= 1
  /\ (dp.reqs # <<>> /\ DpHolders # {}) =>
       dp.reqs[1] = CfgName(up0[SetMin(DpHolders)])
  /\ \A i \in DOMAIN dp.posts : dp.posts[i] = dp.reqs[1]
  /\ (dp.pc = "done" /\ dp.cfgs # <<>>) => Len(dp.reqs) = 1
  /\ (dp.pc = "done" /\ dp.failed # NoErr) => dp.out = Raised(dp.failed)
  /\ (dp.pc = "done" /\ dp.out.st = "ok") => dp.acc

\* C11: when the identifier matches no peer of any configuration,
\* delete_peer sends no deletePeers request and ends in an error.
C11_NotFoundRaises ==
  DpHolders = {} =>
    /\ dp.reqs = <<>>
    /\ dp.posts = <<>>
    /\ dp.pc = "done" => dp.out.st = "raised"

-----------------------------------------------------------------------------
(* SpecDownload: one call of get_peer_config(config, public_key), that is  *)
(* download_peer_conf(config, public_key) and the decoding of its content. *)
(* Each request gets any of the answers a dashboard (or a proxy in front   *)
(* of it) can give.  A download response carries its content type, its body, the  *)
(* parse of the body and, for a JSON object, the entries the code reads.   *)
(* A file name is a sequence of symbols whose last one may be ".conf".     *)

DownloadPath == "/api/downloadPeer/wg0"

\* The peer's configuration file, and a page that is none
ConfText == <<"[Interface]", "PrivateKey", "[Peer]">>
HtmlText == <<"<html>", "login">>

DlResp(net, status, ctype, body, json, flag, file, fileName, cd) ==
  [net |-> net, status |-> status, ctype |-> ctype, body |-> body, json |-> json,
   flag |-> flag, file |-> file, fileName |-> fileName, cd |-> cd]

DlNetFail(exc) == DlResp(exc, 0, "", <<>>, "invalid", "absent", <<>>, <<>>, <<>>)
DlHttpErr(status) == DlResp("ok", status, "text/html", HtmlText, "invalid", "absent", <<>>, <<>>, <<>>)
\* {"status": true, "data": {"file": file, "fileName": fileName}}
DlJsonFile(file, fileName) ==
  DlResp("ok", 200, "application/json", <<"{", "json">>, "dict", "true", file, fileName, <<>>)
\* {"status": false, "message": ..., "data": null}
DlJsonFail == DlResp("ok", 200, "application/json", <<"{", "json">>, "dict", "false", <<>>, <<>>, <<>>)
\* a body that starts like JSON and does not parse
DlBrokenJson == DlResp("ok", 200, "text/plain", <<"{", "broken">>, "invalid", "absent", <<>>, <<>>, <<>>)
\* a JSON array
DlJsonList == DlResp("ok", 200, "application/json", <<"[", "json">>, "list", "absent", <<>>, <<>>, <<>>)
\* a body sent as it is
DlRaw(body, cd) == DlResp("ok", 200, "application/octet-stream", body, "invalid", "absent", <<>>, <<>>, cd)

\* A configuration text with a character outside ASCII, and a configuration
\* body with a byte that is no UTF-8
AccentText == <<"[Interface]", "U+00FF">>
Latin1Body == <<"[Interface]", "xFF">>

DlResponses ==
  {DlNetFail("ConnectError"), DlHttpErr(404), DlHttpErr(500),
   DlJsonFile(ConfText, <<"phone">>), DlJsonFile(AccentText, <<"phone", ".conf">>),
   DlJsonFile(<<>>, <<>>), DlJsonFail, DlBrokenJson, DlJsonList,
   DlRaw(ConfText, <<"phone", ".conf">>), DlRaw(Latin1Body, <<>>),
   DlRaw(HtmlText, <<>>), DlRaw(<<>>, <<>>)}

\* text.encode("utf-8"): U+00FF becomes the two bytes C3 BF (one symbol)
EncodeUtf8(text) ==
  [i \in DOMAIN text |-> IF text[i] = "U+00FF" THEN "xC3xBF" ELSE text[i]]

\* content.decode("utf-8"), and on UnicodeDecodeError
\* content.decode("latin-1", errors="replace")
DecodeContent(content) ==
  IF \A i \in DOMAIN content : content[i] # "xFF"
    THEN [i \in DOMAIN content |-> IF content[i] = "xC3xBF" THEN "U+00FF" ELSE content[i]]
    ELSE [i \in DOMAIN content |->
            CASE content[i] = "xFF" -> "U+00FF"
              [] content[i] = "xC3xBF" -> "U+00C3U+00BF"
              [] OTHER -> content[i]]

\* filename = ... or "peer.conf"; if not filename.endswith(".conf"): append
ConfName(fn) ==
  IF fn = <<>> THEN <<"peer", ".conf">>
  ELSE IF fn[Len(fn)] = ".conf" THEN fn ELSE Append(fn, ".conf")

DlNone == [kind |-> "none", name |-> <<>>, content |-> <<>>, err |-> NoErr]
DlGot(name, content) == [kind |-> "got", name |-> name, content |-> content, err |-> NoErr]
DlRaise(err) == [kind |-> "raise", name |-> <<>>, content |-> <<>>, err |-> err]

NoFileErr == WGDError(<<"downloadPeer returned JSON without a correct 'data.file'.">>)

\* _try_download on the response r: None, (filename, content), or an error
TryDownload(r) ==
  IF r.net # "ok" THEN DlNone
  ELSE IF r.status # 200 THEN DlNone
  ELSE IF r.ctype = "application/json" \/ (r.body # <<>> /\ r.body[1] \in {"{", "["})
    THEN IF r.json = "invalid" THEN DlGot(<<"peer", ".conf">>, r.body)
         ELSE IF r.json = "list" THEN DlRaise([cls |-> "AttributeError", msg |-> <<>>])
         ELSE IF ~Contains(r.file, "[Interface]") THEN DlRaise(NoFileErr)
         ELSE DlGot(ConfName(r.fileName), EncodeUtf8(r.file))
  ELSE DlGot(ConfName(r.cd), r.body)

\* attempts, behind the primary variant
Variants ==
  <<[method |-> "GET", param |-> "id"],
    [method |-> "GET", param |-> "peer_id"],
    [method |-> "GET", param |-> "peerId"],
    [method |-> "GET", param |-> "publicKey"],
    [method |-> "GET", param |-> "public_key"],
    [method |-> "POST", param |-> "id"]>>

\* last.append(f"{method} {p} -> ..."): the status, or the exception
Recorded(k, r) ==
  <<Variants[k].method, DownloadPath, "->",
    IF r.net = "ok" THEN ToString(r.status) ELSE r.net>>

RECURSIVE Joined(_)
Joined(last) == IF last = <<>> THEN <<>> ELSE last[1] \o Joined(Tail(last))

AllFailedErr(last) == WGDError(<<"downloadPeer failed. Tried variants:">> \o Joined(last))

DlIdle ==
  [pc |-> Idle, k |-> 0, wire |-> NoVal, resp |-> NoVal, went |-> DlNone,
   last |-> <<>>, sent |-> <<>>,
   out |-> [st |-> "none", name |-> <<>>, content |-> <<>>, err |-> NoErr],
   text |-> <<>>]

InitDownload ==
  /\ IdleExDl
  /\ dl = DlIdle

\* _try_download sends variant k
DlSendTry(d, k) ==
  [d EXCEPT !.pc = "try", !.k = k, !.wire = NoVal, !.sent = Append(@, k)]

\* download_peer_conf, up to the request of its primary variant
DlCall ==
  /\ dl.pc = Idle
  /\ dl' = DlSendTry(dl, 1)
  /\ UNCHANGED exDl

\* The answer to the request in flight
DlServe ==
  /\ dl.pc \in {"try", "probe"} /\ dl.wire = NoVal
  /\ \E r \in DlResponses : dl' = [dl EXCEPT !.wire = r]
  /\ UNCHANGED exDl

\* _try_download handles the answer; download_peer_conf returns (and
\* get_peer_config returns the decoded content), or goes on: behind the primary variant to the first of attempts, inside the loop
\* to the second request of the same variant
DlRecvTry ==
  /\ dl.pc = "try" /\ dl.wire # NoVal
  /\ LET res == TryDownload(dl.wire)
         d == [dl EXCEPT !.resp = dl.wire, !.went = res, !.wire = NoVal]
     IN  dl' = CASE res.kind = "got" ->
                     [d EXCEPT !.pc = "done",
                               !.out = [st |-> "ok", name |-> res.name,
                                        content |-> res.content, err |-> NoErr],
                               !.text = DecodeContent(res.content)]
                [] res.kind = "raise" ->
                     [d EXCEPT !.pc = "done",
                               !.out = [st |-> "raised", name |-> <<>>,
                                        content |-> <<>>, err |-> res.err]]
                [] res.kind = "none" /\ dl.k = 1 -> DlSendTry(d, 2)
                [] res.kind = "none" /\ dl.k > 1 ->
                     [d EXCEPT !.pc = "probe", !.sent = Append(@, dl.k)]
  /\ UNCHANGED exDl

\* The second request of a loop variant is answered: its outcome is
\* recorded; then the next variant, or the error after the last one
DlRecvProbe ==
  /\ dl.pc = "probe" /\ dl.wire # NoVal
  /\ LET last == Append(dl.last, Recorded(dl.k, dl.wire))
         d == [dl EXCEPT !.last = last, !.wire = NoVal]
     IN  dl' = IF dl.k < Len(Variants) THEN DlSendTry(d, dl.k + 1)
               ELSE [d EXCEPT !.pc = "done",
                              !.out = [st |-> "raised", name |-> <<>>, content |-> <<>>,
                                       err |-> AllFailedErr(last)]]
  /\ UNCHANGED exDl

NextDownload ==
  \/ DlCall
  \/ DlServe
  \/ DlRecvTry
  \/ DlRecvProbe

SpecDownload == InitDownload /\ [][NextDownload]_vars

\* A 200 response whose JSON envelope has status false
FailEnvelope(r) == r.net = "ok" /\ r.status = 200 /\ r.json = "dict" /\ r.flag = "false"

\* A response with an HTTP error status outside the retried ones
HttpFailure(r) == r.net = "ok" /\ r.status >= 400 /\ r.status \notin RETRY_STATUSES

\* C6: for every request, a 200 response whose envelope has status false
\* ends like a non-retryable HTTP error status: in _arequest both raise on
\* every attempt, without a retry and without returning the body; in
\* download_peer_conf a variant answered with an HTTP error status is passed
\* over (no result, no error, the operation goes on), and so is a variant
\* answered with a failure envelope.
C6_FailureEnvelope ==
  /\ \A n \in 1..(MAX_RETRIES + 1), m \in Methods, p \in Paths :
       /\ AreqStep(m, p, n, MAX_RETRIES, JsonFail(<<"no">>)).act = "raise"
       /\ AreqStep(m, p, n, MAX_RETRIES, HttpErr(404, <<"no">>)).act = "raise"
  /\ (dl.resp # NoVal /\ HttpFailure(dl.resp)) => dl.went = DlNone
  /\ (dl.resp # NoVal /\ FailEnvelope(dl.resp)) => dl.went = DlNone

\* A response that carries a configuration: a JSON object whose file has
\* the marker, or a body of another kind that has it
Carries(r) ==
  /\ r.net = "ok" /\ r.status = 200
  /\ IF r.json = "dict" THEN Contains(r.file, "[Interface]")
     ELSE r.json = "invalid" /\ Contains(r.body, "[Interface]")

\* The variants requested so far, each once, in the order of the requests
DlAttempted == {dl.sent[i] : i \in DOMAIN dl.sent}

\* C12: the variants are requested in the order GET ?id, GET ?peer_id,
\* GET ?peerId, GET ?publicKey, GET ?public_key, POST ?id; the call returns
\* the content of the first variant whose response carries a configuration
\* with "[Interface]"; a failed variant, however it failed, does not keep
\* the later variants from being tried; nothing is requested after the
\* success.
C12_VariantOrder ==
  /\ \A i \in DOMAIN dl.sent :
       IF i = 1 THEN dl.sent[i] = 1 ELSE dl.sent[i] - dl.sent[i - 1] \in {0, 1}
  /\ (dl.resp # NoVal /\ Carries(dl.resp)) => (dl.pc = "done" /\ dl.out.st = "ok")
  /\ (dl.pc = "done" /\ dl.out.st = "ok") =>
       (Carries(dl.resp) /\ dl.sent[Len(dl.sent)] = dl.k)
  /\ (dl.pc = "done" /\ dl.out.st = "raised") => DlAttempted = DOMAIN Variants

\* C13: a text that get_peer_config returns has the marker "[Interface]";
\* from a JSON envelope it is the text of data.file; a 200 response without
\* the marker is never a successful download.
C13_MarkerInText ==
  (dl.pc = "done" /\ dl.out.st = "ok") =>
    /\ Contains(dl.text, "[Interface]")
    /\ dl.resp.json = "dict" => dl.text = dl.resp.file

\* C14: when every variant failed, the error is one WGDError whose message
\* lists one outcome for each variant attempted, GET ?id included.
C14_EveryOutcomeListed ==
  (dl.pc = "done" /\ dl.out.st = "raised" /\ dl.went = DlNone) =>
    /\ dl.out.err = AllFailedErr(dl.last)
    /\ Len(dl.last) = Cardinality(DlAttempted)

-----------------------------------------------------------------------------
(* SpecCache: two tasks on one client, running up to MaxOps operations    *)
(* between them, each task one after the other: task 1 any of get_configs, get_peers    *)
(* (with or without force), add_config, delete_config, add_peers and       *)
(* delete_peers, task 2 the reads.  The dashboard holds wg0 with its       *)
(* peers, and wg1 once it is added.  A request is served in one step and   *)
(* its response handled in a later one.  get_peers is one request standing *)
(* for its five endpoint variants.                                         *)

MaxOps == 3

GetOps == {"get_configs", "get_peers"}
CfgMutOps == {"add_config", "delete_config"}
PeerMutOps == {"add_peers", "delete_peers"}
MutOps == CfgMutOps \cup PeerMutOps

\* ck: the cache key an operation reads, writes or pops
CaKey(op) == IF op \in {"get_configs"} \cup CfgMutOps THEN CfgKey ELSE PeersKey("wg0")

CaTtl(op) == IF op = "get_configs" THEN CFG_TTL ELSE PEERS_TTL

CaMethod(op) == IF op \in GetOps THEN "GET" ELSE "POST"

CaPath(op) ==
  CASE op = "get_configs" -> CfgListPath
    [] op = "get_peers" -> PeersPath
    [] op = "add_config" -> CfgAddPath
    [] op = "delete_config" -> "/api/deleteWireguardConfiguration"
    [] op = "add_peers" -> AddPeersPath
    [] op = "delete_peers" -> DeletePeersPath("wg0")

\* self._cache.pop(...) of a mutating operation, after its _arequest
CaInvalidate_ConfigsOnly(c, op) == IF op \in CfgMutOps THEN CachePop(c, CfgKey) ELSE c

CaInvalidate(c, op) == CachePop(c, CaKey(op))

\* _cache_get of a read, as CacheHit, with the age limit one second late
CaCacheHit_Late(c, key, ttl, t) == key \in DOMAIN c /\ (t - c[key].ts) <= ttl + 1

CaCacheHit(c, key, ttl, t) == CacheHit(c, key, ttl, t)

CaNoOut == [st |-> "none", val |-> <<>>, err |-> NoErr]

CaIdle ==
  [pc |-> Idle, op |-> "", force |-> FALSE, attempt |-> 0, wire |-> NoVal,
   out |-> CaNoOut, n |-> 0, hit |-> FALSE, age |-> 0, stale |-> FALSE,
   stored |-> FALSE, foreign |-> FALSE, reqs |-> 0]

InitCache ==
  /\ IdleExCa
  /\ now = 0
  /\ cache = EmptyCache
  /\ upEmbed \in BOOLEAN
  /\ up = <<[Cfg("wg0") EXCEPT !.Address = CpSubnet, !.Peers = InitPeers(1)]>>
  /\ up0 = up
  /\ tk = [t \in T |-> CaIdle]

\* Task t starts an operation: a read served from the cache returns at
\* once; otherwise (a miss, force, or a mutation) the request is sent
CaCall(t, op, force) ==
  /\ tk[t].pc \in {Idle, "ret"} /\ tk[1].n + tk[2].n < MaxOps
  /\ LET key == CaKey(op)
         read == op \in GetOps /\ ~force
         hit == read /\ CaCacheHit(cache, key, CaTtl(op), now)
         c1 == IF read THEN CacheAfterGet(cache, key, CaTtl(op), now) ELSE cache
         base == [CaIdle EXCEPT !.op = op, !.force = force, !.n = tk[t].n + 1,
                                !.hit = hit,
                                !.age = IF hit THEN now - cache[key].ts ELSE 0,
                                !.stale = read /\ ~hit /\ key \in DOMAIN c1]
     IN  /\ cache' = c1
         /\ tk' = [tk EXCEPT ![t] =
                     IF hit THEN [base EXCEPT !.pc = "ret",
                                              !.out = [st |-> "ok", val |-> cache[key].val,
                                                       err |-> NoErr]]
                            ELSE [base EXCEPT !.pc = "wait", !.attempt = 1, !.reqs = 1]]
  /\ UNCHANGED <<exCa, now, up>>

\* What the dashboard does with a request of operation op in state u: the
\* states and responses it may end in
CaServed(op, u, embed) ==
  LET unavailable == {[up |-> u, r |-> HttpErr(503, <<"unavailable">>)]}
      peers == u[1].Peers
  IN  CASE op = "get_configs" ->
             unavailable \cup {[up |-> u, r |-> JsonOk(ListData(ListView(u, embed)))]}
        [] op = "get_peers" ->
             {[up |-> u, r |-> JsonOk(ListData(peers))],
              [up |-> u, r |-> HttpErr(500, <<"internal">>)]}
        [] op = "add_config" ->
             unavailable \cup
             (IF "wg1" \in CfgNames(u)
                THEN {[up |-> u, r |-> JsonFail(<<"Already", "exists">>)]}
                ELSE {[up |-> Append(u, Cfg("wg1")), r |-> JsonOk(NoData)]})
        [] op = "delete_config" ->
             unavailable \cup
             (IF "wg1" \in CfgNames(u)
                THEN {[up |-> <<u[1]>>, r |-> JsonOk(NoData)]}
                ELSE {[up |-> u, r |-> JsonFail(<<"Configuration", "does not exist">>)]})
        [] op = "add_peers" ->
             LET rec == NewPeer(Len(peers) + 1, UpstreamPick(peers))
             IN  unavailable \cup
                 {[up |-> [u EXCEPT ![1].Peers = Append(@, rec)],
                   r |-> JsonOk(ListData(<<rec>>))]}
        [] op = "delete_peers" ->
             unavailable \cup
             (IF peers = <<>>
                THEN {[up |-> u, r |-> JsonFail(<<"Peer", "does not exist">>)]}
                ELSE {[up |-> [u EXCEPT ![1].Peers = SubSeq(@, 1, Len(@) - 1)],
                       r |-> JsonOk(NoData)]})

\* The dashboard serves the request of task t
CaServe(t) ==
  /\ tk[t].pc = "wait" /\ tk[t].wire = NoVal
  /\ \E o \in CaServed(tk[t].op, up, upEmbed) :
       /\ up' = o.up
       /\ tk' = [tk EXCEPT ![t].wire = o.r]
  /\ UNCHANGED <<exCa, now, cache>>

\* A read of task t stores and returns val; the other task learns that the
\* entry of its last operation was written by someone else
CaStored(t, val, c) ==
  LET key == CaKey(tk[t].op)
  IN  [x \in T |->
         IF x = t
           THEN [tk[t] EXCEPT !.pc = "ret", !.wire = NoVal,
                              !.out = [st |-> "ok", val |-> val, err |-> NoErr],
                              !.stored = c[key] = [ts |-> now, val |-> val]]
         ELSE IF tk[x].op # "" /\ CaKey(tk[x].op) = key
           THEN [tk[x] EXCEPT !.foreign = TRUE]
         ELSE tk[x]]

\* Task t handles the response of its request
CaRecv(t) ==
  /\ tk[t].pc = "wait" /\ tk[t].wire # NoVal
  /\ LET op == tk[t].op
         r == tk[t].wire
         s == AreqStep(CaMethod(op), CaPath(op), tk[t].attempt, MAX_RETRIES, r)
     IN  IF op = "get_peers"
           THEN LET peers == IF r.status = 200 THEN Items(r) ELSE <<>>
                    c1 == CacheSet(cache, CaKey(op), now, peers)
                IN  cache' = c1 /\ tk' = CaStored(t, peers, c1)
         ELSE CASE s.act = "retry" ->
                     /\ tk' = [tk EXCEPT ![t].attempt = @ + 1, ![t].wire = NoVal,
                                         ![t].reqs = @ + 1]
                     /\ cache' = cache
                [] s.act = "raise" ->
                     /\ tk' = [tk EXCEPT ![t].pc = "ret", ![t].wire = NoVal,
                                         ![t].out = [st |-> "raised", val |-> <<>>,
                                                     err |-> s.err]]
                     /\ cache' = cache
                [] s.act = "return" /\ op = "get_configs" ->
                     LET c1 == CacheSet(cache, CfgKey, now, Items(s.val))
                     IN  cache' = c1 /\ tk' = CaStored(t, Items(s.val), c1)
                [] s.act = "return" /\ op \in MutOps ->
                     /\ cache' = CaInvalidate(cache, op)
                     /\ tk' = [tk EXCEPT ![t].pc = "ret", ![t].wire = NoVal,
                                         ![t].out = [st |-> "ok", val |-> Items(s.val),
                                                     err |-> NoErr]]
  /\ UNCHANGED <<exCa, now, up>>

NextCache ==
  \/ \E t \in T, op \in GetOps, force \in BOOLEAN : CaCall(t, op, force)
  \/ \E op \in MutOps : CaCall(1, op, FALSE)
  \/ \E t \in T : CaServe(t)
  \/ \E t \in T : CaRecv(t)
  \/ Tick

SpecCache == InitCache /\ [][NextCache]_vars

\* Task t has returned from operation op without an error
CaReturned(t, ops) == tk[t].pc = "ret" /\ tk[t].op \in ops /\ tk[t].out.st = "ok"

\* C15: once add_config, delete_config, add_peers or delete_peers has
\* returned, the cache has no entry for the list it changed (until a read
\* of another task stores one), so the next read of that list by the task
\* is a miss and sends a request.
C15_MutationInvalidates ==
  \A t \in T :
    (CaReturned(t, MutOps) /\ ~tk[t].foreign) =>
      /\ CaKey(tk[t].op) \notin DOMAIN cache
      /\ \A op \in GetOps :
           CaKey(op) = CaKey(tk[t].op) => ~CaCacheHit(cache, CaKey(op), CaTtl(op), now)

\* An add_peers has returned while the peers list was in the cache just
\* before (here: while it is still in the cache of the other reads' making)
C15_Witness ==
  \E t \in T :
    /\ CaReturned(t, {"add_peers"}) /\ ~tk[t].foreign
    /\ \E x \in T \ {t} : CaReturned(x, {"get_peers"}) /\ tk[x].reqs = 1
    /\ CfgKey \in DOMAIN cache

\* C16: a read without force returns a cached value only when it was stored
\* at most 3 seconds earlier; an older entry is removed by the read and the
\* list is requested from the dashboard; a read with force always requests
\* it and, when it returns, has replaced the entry.
C16_TtlAndForce ==
  \A t \in T :
    tk[t].op \in GetOps =>
      /\ tk[t].hit => (~tk[t].force /\ tk[t].age <= 3 /\ tk[t].reqs = 0)
      /\ ~tk[t].stale
      /\ ~tk[t].hit => tk[t].reqs >= 1
      /\ (tk[t].pc = "ret" /\ tk[t].out.st = "ok" /\ ~tk[t].hit) => tk[t].stored

\* A read 3 seconds after the store was served from the cache, and a
\* forced read of the other task went to the dashboard and returned
C16_Witness ==
  \E t \in T, x \in T :
    /\ tk[t].op \in GetOps /\ tk[t].hit /\ tk[t].age = 3
    /\ tk[x].op \in GetOps /\ tk[x].force /\ tk[x].pc = "ret" /\ tk[x].stored

-----------------------------------------------------------------------------
(* SpecAlloc: _suggest_next_allowed_ip("wg0") as a function of what        *)
(* get_configs and get_peers return: a list of wg0 (with its Address and   *)
(* peers) and wg1 (with its peers), the peer lists embedded or not.        *)

\* The peer whose allowed ip is ip/32
PeerAt(ip) == [id |-> Str("pk"), publicKey |-> Str("pk"), allowed_ip |-> Cidr(ip)]

\* The peers holding the addresses ips, in ascending order
PeersAt(ips) ==
  [i \in 1..Cardinality(ips) |->
     PeerAt(CHOOSE x \in ips : Cardinality({y \in ips : y < x}) = i - 1)]

AlAddresses ==
  {Addr(IP(10, 0, 5, 1), 24), Addr(IP(10, 0, 5, 129), 25), Addr(IP(10, 0, 4, 1), 23),
   Addr(IP(10, 0, 5, 1), 30), NoAddr}

\* The addresses wg0's peers may hold: any of a few, or all of 10.0.4.2-255
AlUsedSets ==
  (SUBSET {IP(10, 0, 5, 2), IP(10, 0, 5, 3), IP(10, 0, 5, 5), IP(10, 0, 5, 9),
           IP(10, 0, 5, 130), IP(10, 0, 5, 255)})
  \cup {IP(10, 0, 4, 2)..IP(10, 0, 4, 255)}

AlOtherSets == {{}, {IP(10, 0, 7, 9)}}

InitAlloc ==
  /\ IdleExAl
  /\ \E a \in AlAddresses, used \in AlUsedSets, other \in AlOtherSets, e \in BOOLEAN :
       al = [addr |-> a, used |-> used, other |-> other, embed |-> e,
             done |-> FALSE, out |-> 0]

\* get_configs() as the function sees it
AlCfgs(a) ==
  ListView(<<[Cfg("wg1") EXCEPT !.Peers = PeersAt(a.other)],
             [Cfg("wg0") EXCEPT !.Address = a.addr, !.Peers = PeersAt(a.used)]>>,
           a.embed)

\* _suggest_next_allowed_ip(config), get_peers(config) yielding `fetched`
Suggest(cfgs, config, fetched) ==
  LET target == TargetOf(cfgs, config)
      emb == TargetPeers(target)
      raw_peers == IF emb # <<>> THEN emb ELSE fetched
  IN  SuggestFrom(TargetNet(target), UsedIps(raw_peers))

AlApply ==
  /\ ~al.done
  /\ al' = [al EXCEPT !.done = TRUE,
                      !.out = Suggest(AlCfgs(al), "wg0", PeersAt(al.used))]
  /\ UNCHANGED exAl

NextAlloc == AlApply

SpecAlloc == InitAlloc /\ [][NextAlloc]_vars

AlNet == NetOf(al.addr)

\* The host addresses of the subnet above its first host that no peer of
\* wg0 holds
AlFree == {h \in Hosts(AlNet) : h > AlNet.base + 1 /\ h \notin al.used}

\* C17: whatever the subnet and the assigned addresses, the suggestion is
\* neither the subnet's network address nor its first host address.
C17_NeverReserved ==
  (al.done /\ AlNet.ok) => al.out \notin {AlNet.base, AlNet.base + 1}

\* C18: with a resolvable subnet that has a free host, the suggestion is
\* the lowest host address above the first host that no peer of the
\* configuration holds (10.0.5.0/24 with .2 and .3 taken gives 10.0.5.4).
C18_LowestFree ==
  (al.done /\ AlNet.ok /\ AlFree # {}) => al.out = SetMin(AlFree)

\* The addresses of all peers of all configurations
AlAllUsed == al.used \cup al.other

RECURSIVE SkipLow(_)
SkipLow(ip) == IF (ip % 256) \in {0, 1} THEN SkipLow(ip + 1) ELSE ip

\* C19: with an unresolvable subnet the suggestion is max+1 over the
\* addresses of all known peers of any configuration, moved past last
\* octets 0 and 1; with no peer anywhere it is 10.66.66.2.
C19_FallbackMax ==
  (al.done /\ ~AlNet.ok) =>
    al.out = IF AlAllUsed = {} THEN BootstrapIp ELSE SkipLow(SetMax(AlAllUsed) + 1)

-----------------------------------------------------------------------------
(* SpecRace: two tasks on one client, each calling create_peer(CpConfig,   *)
(* name) without an allowed_ip, against a dashboard that answers every     *)
(* request, creates no peer without an allowed_ip and none with an address *)
(* that a peer holds.  Each task runs the code of SpecPeer on its own      *)
(* record; the cache and the dashboard are shared.                         *)

InitRace ==
  /\ IdleExRc
  /\ now = 0
  /\ upEmbed \in BOOLEAN
  /\ \E k \in 0..InitPeersMax :
       up = <<[Cfg(CpConfig) EXCEPT !.Address = CpSubnet, !.Peers = InitPeers(k)]>>
  /\ up0 = up
  /\ cache \in {EmptyCache, CacheSet(EmptyCache, CfgKey, 0, ListView(up, upEmbed))}
  /\ rc = [t \in T |-> CpIdle]

\* create_peer of task t, up to the request of its first add_peers
RcCall(t) ==
  /\ rc[t].pc = Idle
  /\ rc' = [rc EXCEPT ![t] = CpSendAdd(rc[t], "add1", rc[t].ip0)]
  /\ UNCHANGED <<exRc, now, cache, up>>

\* The dashboard serves the addPeers request of task t
RcServeAdd(t) ==
  /\ rc[t].pc \in {"add1", "add2"} /\ rc[t].wire = NoVal
  /\ LET peers == up[1].Peers
         ip == rc[t].body
         rec == NewPeer(Len(peers) + 1, ip)
     IN  IF ip # 0 /\ ip \notin UsedIps(peers)
           THEN /\ up' = [up EXCEPT ![1].Peers = Append(@, rec)]
                /\ rc' = [rc EXCEPT ![t].wire = JsonOk(ListData(<<rec>>))]
           ELSE /\ up' = up
                /\ rc' = [rc EXCEPT ![t].wire = JsonFail(<<"ALLOWED_IP", "missing or taken">>)]
  /\ UNCHANGED <<exRc, now, cache>>

RcRecvAdd(t) ==
  /\ rc[t].pc \in {"add1", "add2"} /\ rc[t].wire # NoVal
  /\ LET nxt == CpAddHandled(rc[t], cache, now)
     IN  rc' = [rc EXCEPT ![t] = nxt.cp] /\ cache' = nxt.cache
  /\ UNCHANGED <<exRc, now, up>>

\* The dashboard answers the allocator's list request of task t
RcServeCfgs(t) ==
  /\ rc[t].pc = "sg_cfgs" /\ rc[t].wire = NoVal
  /\ rc' = [rc EXCEPT ![t].wire = JsonOk(ListData(ListView(up, upEmbed)))]
  /\ UNCHANGED <<exRc, now, cache, up>>

RcRecvCfgs(t) ==
  /\ rc[t].pc = "sg_cfgs" /\ rc[t].wire # NoVal
  /\ LET nxt == CpCfgsHandled(rc[t], cache, now)
     IN  rc' = [rc EXCEPT ![t] = nxt.cp] /\ cache' = nxt.cache
  /\ UNCHANGED <<exRc, now, up>>

\* The dashboard answers get_peers of task t
RcServePeers(t) ==
  /\ rc[t].pc = "sg_peers" /\ rc[t].wire = NoVal
  /\ rc' = [rc EXCEPT ![t].wire = JsonOk(ListData(up[1].Peers))]
  /\ UNCHANGED <<exRc, now, cache, up>>

RcRecvPeers(t) ==
  /\ rc[t].pc = "sg_peers" /\ rc[t].wire # NoVal
  /\ LET nxt == CpPeersHandled(rc[t], cache, now)
     IN  rc' = [rc EXCEPT ![t] = nxt.cp] /\ cache' = nxt.cache
  /\ UNCHANGED <<exRc, now, up>>

NextRace ==
  \/ \E t \in T : RcCall(t)
  \/ \E t \in T : RcServeAdd(t)
  \/ \E t \in T : RcRecvAdd(t)
  \/ \E t \in T : RcServeCfgs(t)
  \/ \E t \in T : RcRecvCfgs(t)
  \/ \E t \in T : RcServePeers(t)
  \/ \E t \in T : RcRecvPeers(t)
  \/ Tick

SpecRace == InitRace /\ [][NextRace]_vars

\* Both calls are over, both had computed the same suggestion, and the
\* dashboard rejected the second request of one of them
RcSameSuggestion ==
  /\ \A t \in T : rc[t].pc = "done" /\ rc[t].sug # 0
  /\ rc[1].sug = rc[2].sug
  /\ \E t \in T : rc[t].second.kind = "err"

\* C20: when two concurrent create_peer calls have computed the same
\* suggestion and the dashboard rejects the later create as a duplicate,
\* the rejected call computes a new suggestion and tries again: both calls
\* end with a created peer, at different addresses.
C20_BothCreated ==
  RcSameSuggestion =>
    /\ \A t \in T : rc[t].out.st = "ok"
    /\ rc[1].out.val # rc[2].out.val
    /\ Len(up[1].Peers) = Len(up0[1].Peers) + 2
    /\ Cardinality(UsedIps(up[1].Peers)) = Len(up[1].Peers)

-----------------------------------------------------------------------------
(* Numbers of any size.  A natural number is the sequence of its digits in *)
(* base 10^6, lowest first, without leading zeros (0 is <<>>); a Python    *)
(* int is a sign and a magnitude.                                          *)

Limb == 1000 * 1000

\* drop the leading zero digits
RECURSIVE Trim(_)
Trim(a) ==
  IF a # <<>> /\ a[Len(a)] = 0 THEN Trim(SubSeq(a, 1, Len(a) - 1)) ELSE a

\* a natural number below 2^31 as digits
BigOf(n) == Trim(<<n % Limb, n \div Limb>>)

BigLt(a, b) ==
  \/ Len(a) < Len(b)
  \/ /\ Len(a) = Len(b)
     /\ \E i \in 1..Len(a) : a[i] < b[i] /\ \A j \in (i + 1)..Len(a) : a[j] = b[j]

BigLe(a, b) == a = b \/ BigLt(a, b)

\* a * k for 0 <= k <= 2048
RECURSIVE MulCarry(_, _, _)
MulCarry(a, k, carry) ==
  IF a = <<>> THEN (IF carry = 0 THEN <<>> ELSE <<carry>>)
  ELSE LET v == a[1] * k + carry
       IN  <<v % Limb>> \o MulCarry(Tail(a), k, v \div Limb)

BigMul(a, k) == Trim(MulCarry(a, k, 0))

\* a + k for 0 <= k < 10^6
RECURSIVE AddCarry(_, _)
AddCarry(a, carry) ==
  IF carry = 0 THEN a
  ELSE IF a = <<>> THEN <<carry>>
  ELSE LET v == a[1] + carry
       IN  <<v % Limb>> \o AddCarry(Tail(a), v \div Limb)

BigAdd(a, k) == AddCarry(a, k)

\* a - k for 0 <= k < 10^6 and a >= k
RECURSIVE SubBorrow(_, _)
SubBorrow(a, borrow) ==
  IF borrow = 0 THEN a
  ELSE LET v == a[1] - borrow
       IN  IF v >= 0 THEN <<v>> \o Tail(a)
           ELSE <<v + Limb>> \o SubBorrow(Tail(a), 1)

BigSub(a, k) == Trim(SubBorrow(a, k))

\* floor(a / k) for 1 <= k <= 2000: long division from the highest digit
RECURSIVE DivRem(_, _, _)
DivRem(a, k, rem) ==
  IF a = <<>> THEN <<>>
  ELSE LET v == rem * Limb + a[Len(a)]
       IN  DivRem(SubSeq(a, 1, Len(a) - 1), k, v % k) \o <<v \div k>>

BigDiv(a, k) == Trim(DivRem(a, k, 0))

\* a mod m for a power of two m <= 4096 (10^12 is a multiple of 4096)
BigMod(a, m) ==
  LET d0 == IF Len(a) >= 1 THEN a[1] ELSE 0
      d1 == IF Len(a) >= 2 THEN a[2] ELSE 0
  IN  ((d1 % m) * (Limb % m) + d0) % m

\* 2^53 .. 2^63 as digits
BigPow2 ==
  <<<<740992, 199254, 9007>>,
     <<481984, 398509, 18014>>,
     <<963968, 797018, 36028>>,
     <<927936, 594037, 72057>>,
     <<855872, 188075, 144115>>,
     <<711744, 376151, 288230>>,
     <<423488, 752303, 576460>>,
     <<846976, 504606, 152921, 1>>,
     <<693952, 9213, 305843, 2>>,
     <<387904, 18427, 611686, 4>>,
     <<775808, 36854, 223372, 9>>>>

\* a signed integer
SInt(sg, mag) == [sg |-> IF mag = <<>> THEN 1 ELSE sg, mag |-> mag]
Zero == SInt(1, <<>>)
\* the value of a signed integer below 2^31
ToSmall(x) ==
  x.sg * ((IF Len(x.mag) >= 1 THEN x.mag[1] ELSE 0)
          + (IF Len(x.mag) >= 2 THEN x.mag[2] * Limb ELSE 0))

Small(k) == IF k < 0 THEN SInt(0 - 1, BigOf(0 - k)) ELSE SInt(1, BigOf(k))

SLe(x, y) ==
  CASE x.sg = 1 /\ y.sg = 1 -> BigLe(x.mag, y.mag)
    [] x.sg = 1 /\ y.sg # 1 -> FALSE
    [] x.sg # 1 /\ y.sg = 1 -> TRUE
    [] OTHER -> BigLe(y.mag, x.mag)

\* the multiple of q nearest to below + r, where below is one and
\* 0 <= r < q; a tie goes to the even multiple
Nearest(below, q, r) ==
  IF 2 * r < q THEN below
  ELSE IF 2 * r > q THEN BigAdd(below, q)
  ELSE IF BigMod(below, 2 * q) = 0 THEN below ELSE BigAdd(below, q)

RoundBy(mag, q, r) == Nearest(BigSub(mag, r), q, r)

RoundTo(mag, q) == RoundBy(mag, q, BigMod(mag, q))

\* float(n) for a natural number n < 2^64: the nearest number with 53
\* significant bits, a tie going to the even one
FloatInt(mag) ==
  RoundTo(mag, Pow2(Cardinality({j \in DOMAIN BigPow2 : BigLe(BigPow2[j], mag)})))

-----------------------------------------------------------------------------
(* The values of the counter and handshake fields of a raw peer record.   *)
(* Besides null and the texts Str(x) that hold no number:                  *)
(*   JNum(x)        the JSON number x (a whole number)                     *)
(*   JInf           the JSON number Infinity                               *)
(*   NumStr(x, u)   the text "x", or "x u" for a unit u                    *)
(*   RelStr(k, u)   the text "ku" for u in s, m, h, d                      *)
(*   IsoStr(w, o)   the ISO-8601 text of the wall-clock second w, followed  *)
(*                  by the UTC offset o in seconds ("Z" is the offset 0)   *)
(*   IsoNaive(w)    the same without an offset                             *)
(*   JList          a JSON array                                           *)

JNum(x) == [t |-> "num", s |-> "", n |-> 0, num |-> x]
JInf == [t |-> "inf", s |-> "", n |-> 0, num |-> Zero]
NumStr(x, u) == [t |-> "numstr", s |-> u, n |-> 0, num |-> x]
RelStr(k, u) == [t |-> "rel", s |-> u, n |-> k, num |-> Zero]
IsoStr(w, o) == [t |-> "iso", s |-> "tz", n |-> w, num |-> Small(o)]
IsoNaive(w) == [t |-> "iso", s |-> "", n |-> w, num |-> Zero]
JList == [t |-> "list", s |-> "", n |-> 0, num |-> Zero]

\* the outcome of a block that may raise
Ok(x) == [st |-> "ok", val |-> x]
Exc == [st |-> "raised", val |-> Zero]

\* parts[1].upper()
Upper(u) ==
  CASE u = "b" -> "B" [] u = "kb" -> "KB" [] u = "mb" -> "MB"
    [] u = "gb" -> "GB" [] u = "tb" -> "TB" [] OTHER -> u

\* {"B": 0, "KB": 1, "MB": 2, "GB": 3, "TB": 4}.get(unit, 0)
Order(unit) ==
  CASE unit = "KB" -> 1 [] unit = "MB" -> 2 [] unit = "GB" -> 3
    [] unit = "TB" -> 4 [] OTHER -> 0

\* val * 1024 ** order
RECURSIVE Times1024(_, _)
Times1024(mag, order) ==
  IF order = 0 THEN mag ELSE Times1024(BigMul(mag, 1024), order - 1)

\* lines 703-728: the body of _num's outer try
NumBody(v) ==
  CASE v.t = "null" -> Ok(Zero)
    [] v.t \in {"num", "numstr"} ->
         Ok(SInt(v.num.sg,
                 Times1024(FloatInt(v.num.mag),
                           IF v.t = "numstr" THEN Order(Upper(v.s)) ELSE 0)))
    [] v.t = "int" -> Ok(Small(v.n))
    [] v.t = "inf" -> Exc
    [] v.t = "str" /\ v.s = "" -> Ok(Zero)
    [] v.t = "str" /\ v.s = "inf" -> Exc
    [] OTHER -> Ok(Zero)

\* try: ... except Exception: return dflt
Caught(body, dflt) == IF body.st = "ok" THEN body ELSE Ok(dflt)

\* _num without its outer try
_num_NoTry(v) == NumBody(v)

\* _num: any exception of the body gives 0
_num(v) == Caught(NumBody(v), Zero)

\* 1e12 and 1e10
NsFloor == <<0, 0, 1>>
MsFloor == <<0, 10000>>

\* Optional[int]
NoneInt == [some |-> FALSE, val |-> Zero]
SomeInt(x) == [some |-> TRUE, val |-> x]

\* the seconds of a relative unit
UnitSeconds(u) ==
  CASE u = "s" -> 1 [] u = "m" -> 60 [] u = "h" -> 3600 [] OTHER -> 86400

\* lines 741-746: the float f with the sign sg
ScaleFloat(sg, f) ==
  IF sg = 1 /\ BigLt(NsFloor, f)
    THEN SInt(1, BigDiv(BigDiv(BigDiv(f, 1000), 1000), 1000))
  ELSE IF sg = 1 /\ BigLt(MsFloor, f)
    THEN SInt(1, BigDiv(f, 1000))
  ELSE SInt(sg, f)

\* lines 741-746: x = float(v), scaled by its magnitude, int(x)
ScaleNumber(x) == ScaleFloat(x.sg, FloatInt(x.mag))

\* lines 738-771: the body of _to_unix's try, at the clock reading t
UnixBody(v, t) ==
  CASE v.t = "null" -> Ok(NoneInt)
    [] v.t \in {"num", "int"} ->
         Ok(SomeInt(ScaleNumber(IF v.t = "num" THEN v.num ELSE Small(v.n))))
    [] v.t = "inf" -> Exc
    [] v.t = "str" /\ v.s = "" -> Ok(NoneInt)
    [] v.t = "rel" -> Ok(SomeInt(Small(t - v.n * UnitSeconds(v.s))))
    [] v.t = "iso" ->
         \* a naive datetime is taken as UTC (lines 769-770)
         Ok(SomeInt(Small(v.n - (IF v.s = "" THEN 0 ELSE ToSmall(v.num)))))
    [] OTHER -> Exc

\* _to_unix: any exception of the body gives None
_to_unix(v, t) == Caught(UnixBody(v, t), NoneInt)

-----------------------------------------------------------------------------
(* The accessors of the normalizer and _norm_peer.  Each gives the outcome *)
(* of its call: Ok(result), or Exc when an exception leaves it.            *)

RX_KEYS == <<"transferRx", "TransferRx", "rx", "Rx", "receive", "ReceiveBytes">>
TX_KEYS == <<"transferTx", "TransferTx", "tx", "Tx", "sent", "TransmitBytes">>
HS_KEYS == <<"LatestHandshake", "latestHandshake", "latest_handshake", "LastHandshake">>
TS_KEYS ==
  <<"LatestHandshake", "latestHandshake", "latest_handshake",
    "LastHandshake", "lastHandshake", "Handshake", "handshake">>

Present(v) == TRUE
NotNone(v) == v.t # "null"

\* peer.get(k)
Get(peer, k) == IF k \in DOMAIN peer THEN peer[k] ELSE Null

\* _peer_rx, _peer_tx: the first alias that is a key of the record
Counter(p, keys) ==
  LET i == FirstKey(p, keys, Present)
  IN  IF i = 0 THEN Ok(Zero) ELSE _num(p[keys[i]])

_peer_rx(p) == Counter(p, RX_KEYS)
_peer_tx(p) == Counter(p, TX_KEYS)

\* the first of the conversions res that is not None
FirstConverted(res) ==
  LET bad == {i \in DOMAIN res : res[i].st # "ok"}
      hits == {i \in DOMAIN res : res[i].st = "ok" /\ res[i].val.some}
  IN  IF hits \cup bad = {} THEN Ok(NoneInt)
      ELSE IF SetMin(hits \cup bad) \in bad THEN Exc
      ELSE res[SetMin(hits)]

\* _peer_handshake_ts: the first of the seven aliases whose value converts
_peer_handshake_ts(p, t) ==
  FirstConverted([i \in DOMAIN TS_KEYS |-> _to_unix(Get(p, TS_KEYS[i]), t)])

\* _peer_last_hs: the first of the four aliases present and not None
\* decides; without one, _peer_handshake_ts
_peer_last_hs(p, t) ==
  LET i == FirstKey(p, HS_KEYS, NotNone)
  IN  IF i = 0 THEN _peer_handshake_ts(p, t) ELSE _to_unix(p[HS_KEYS[i]], t)

\* pk[-8:]: the names of the model have at most eight characters
Last8(x) == x

\* _peer_name
_peer_name(p) ==
  LET pk == PeerPublicKey(p)
      i == FirstKey(p, <<"name", "Name">>, Truthy)
  IN  IF i # 0 THEN p[<<"name", "Name">>[i]]
      ELSE IF ~Falsy(pk) THEN Str(Last8(pk.s))
      ELSE Str("(no-name)")

\* line 807: (hs is not None) and (time.time() - hs <= self.active_window_sec)
Active_NoWindow(hs, t, window) == hs.some

Active(hs, t, window) == hs.some /\ SLe(Small(t - window), hs.val)

\* lines 810-821 of _norm_peer, where the accessors ended as rx, tx and hs
NormOf(cfg_name, p, pid, pk, rx, tx, hs, t, window) ==
  IF rx.st # "ok" \/ tx.st # "ok" \/ hs.st # "ok" THEN Exc
  ELSE Ok([config |-> cfg_name,
           id |-> IF ~Falsy(pid) THEN pid.s ELSE IF ~Falsy(pk) THEN pk.s ELSE "",
           public_key |-> IF ~Falsy(pk) THEN pk.s ELSE "",
           name |-> _peer_name(p),
           allowed_ip |-> IF Truthy(PeerAllowedIp(p)) THEN PeerAllowedIp(p) ELSE Str(""),
           rx |-> rx.val,
           tx |-> tx.val,
           last_handshake |-> hs.val,
           active |-> Active(hs.val, t, window),
           raw |-> p])

\* _norm_peer at the clock reading t
_norm_peer(cfg_name, p, t, window) ==
  NormOf(cfg_name, p, PeerId(p), PeerPublicKey(p),
         _peer_rx(p), _peer_tx(p), _peer_last_hs(p, t), t, window)

-----------------------------------------------------------------------------
(* SpecNorm: _norm_peer on one raw peer record *)

\* the clock readings of the normalizer's specifications
Clocks == {1700000000}

\* the configured active_window_sec
Windows == {130, 180}

None == [k \in {} |-> Null]

\* 2^53 + 1
Huge == SInt(1, BigAdd(BigPow2[1], 1))

NpIdParts ==
  { None,
    "id" :> Num(7),
    ("id" :> Null) @@ ("publicKey" :> Str("pkA")),
    ("peer_id" :> Str("")) @@ ("PublicKey" :> Str("")),
    ("Id" :> Str("p1")) @@ ("public_key" :> Str("pkB")) @@ ("allowed_ip" :> Cidr(IP(10, 0, 5, 2))) }

NpNameParts == {None, "name" :> Str("alice")}

NpCounters ==
  { Null, JNum(Zero), JNum(Small(100)), JNum(Small(0 - 5)), JNum(Huge), JInf,
    NumStr(Small(100), ""), NumStr(Small(0 - 5), ""), NumStr(Small(5), "KB"),
    NumStr(Small(2), "gb"), NumStr(Small(3), "XB"),
    Str(""), Str("abc"), Str("inf"), JList }

NpRxParts ==
  {None, "download" :> JNum(Small(100))}
  \cup {k :> v : k \in {"transferRx", "rx", "ReceiveBytes"}, v \in NpCounters}
  \cup {("transferRx" :> Null) @@ ("rx" :> v) : v \in {JNum(Small(100)), NumStr(Small(5), "KB")}}
  \cup {("rx" :> JNum(Small(100))) @@ ("Rx" :> JNum(Small(7)))}

NpTxParts ==
  { None, "transferTx" :> JNum(Small(100)), "tx" :> NumStr(Small(0 - 5), "KB"),
    ("TransferTx" :> Null) @@ ("sent" :> JNum(Small(9))) }

NpTimes(t) ==
  { Null, JNum(Zero), JNum(Small(t - 60)), JNum(Small(t - 130)), JNum(Small(t - 131)),
    JNum(Small(t - 200)), JNum(Small(t + 5)),
    JNum(SInt(1, BigMul(BigOf(t - 60), 1000))),
    RelStr(60, "s"), RelStr(200, "s"), RelStr(2, "m"),
    IsoNaive(t - 60), IsoStr(t - 200, 0),
    Str(""), Str("abc"), NumStr(Small(t - 60), ""), JInf, JList }

NpHsParts(t) ==
  {None}
  \cup {k :> v : k \in {"LatestHandshake", "handshake"}, v \in NpTimes(t)}
  \cup {("LatestHandshake" :> Null) @@ ("handshake" :> JNum(Small(t - 60)))}
  \cup {("LatestHandshake" :> Str("abc")) @@ ("LastHandshake" :> JNum(Small(t - 60)))}

NpRaws(t) ==
  {a @@ b @@ c @@ d @@ e :
     a \in NpIdParts, b \in NpNameParts, c \in NpRxParts, d \in NpTxParts, e \in NpHsParts(t)}

InitNorm ==
  /\ \E t \in Clocks, w \in Windows :
       \E p \in NpRaws(t) :
         np = [pc |-> "start", now |-> t, window |-> w, raw |-> p, out |-> Exc]
  /\ IdleExNp

\* peers = [self._norm_peer(name, p) for p in raw_peers], one element
NpNormalize ==
  /\ np.pc = "start"
  /\ np' = [np EXCEPT !.pc = "done",
                      !.out = _norm_peer("wg0", np.raw, np.now, np.window)]
  /\ UNCHANGED exNp

NextNorm == NpNormalize

SpecNorm == InitNorm /\ [][NextNorm]_vars

\* C21: a normalized peer is active exactly when it has a last handshake
\* and the clock is at most active_window_sec past it; under a window of
\* 130 s a handshake 60 s ago is active and one 200 s ago is not
C21_ActiveWindow ==
  (np.pc = "done" /\ np.out.st = "ok") =>
    LET peer == np.out.val
        hs == peer.last_handshake
    IN  /\ peer.active <=> (hs.some /\ np.now - ToSmall(hs.val) <= np.window)
        /\ (np.window = 130 /\ hs = SomeInt(Small(np.now - 60))) => peer.active
        /\ (np.window = 130 /\ hs = SomeInt(Small(np.now - 200))) => ~peer.active

C21_Witness ==
  /\ np.pc = "done" /\ np.out.st = "ok"
  /\ np.window = 130
  /\ "LatestHandshake" \in DOMAIN np.raw
  /\ np.raw["LatestHandshake"] = JNum(Small(np.now - 60))
  /\ np.out.val.active

\* C22: the rx and tx of every normalized peer are integers >= 0: negative
\* numbers, negative numeric strings and unparseable values become 0
C22_NonNegative ==
  (np.pc = "done" /\ np.out.st = "ok") =>
    /\ SLe(Zero, np.out.val.rx)
    /\ SLe(Zero, np.out.val.tx)

\* a value no coercion recognises: a text that holds no number or time, an
\* array, an infinite number
Unrecognised(v) ==
  \/ v.t \in {"null", "list", "inf"}
  \/ v.t = "str"

\* the values the record holds under the keys of `keys`
Held(p, keys) == {p[keys[i]] : i \in {j \in DOMAIN keys : keys[j] \in DOMAIN p}}

\* C23: on every raw peer record the accessors and _norm_peer return
\* without raising; counters that are absent or unrecognised give 0, a
\* handshake that is absent or unrecognised gives none, and the id and the
\* public_key of the result are values of the raw record, or empty
C23_TotalNoInvention ==
  np.pc = "done" =>
    /\ np.out.st = "ok"
    /\ _peer_rx(np.raw).st = "ok"
    /\ _peer_tx(np.raw).st = "ok"
    /\ _peer_last_hs(np.raw, np.now).st = "ok"
    /\ (\A v \in Held(np.raw, RX_KEYS) : Unrecognised(v)) => np.out.val.rx = Zero
    /\ (\A v \in Held(np.raw, TX_KEYS) : Unrecognised(v)) => np.out.val.tx = Zero
    /\ (\A v \in Held(np.raw, TS_KEYS) : Unrecognised(v) \/ v.t = "numstr")
         => ~np.out.val.last_handshake.some
    /\ np.out.val.public_key \in {PyStr(v) : v \in Held(np.raw, PK_KEYS)} \cup {""}
    /\ np.out.val.id \in
         {PyStr(v) : v \in Held(np.raw, ID_KEYS) \cup Held(np.raw, PK_KEYS)} \cup {""}

C23_Witness ==
  /\ np.pc = "done" /\ np.out.st = "ok"
  /\ "rx" \in DOMAIN np.raw /\ np.raw["rx"] = JInf
  /\ "handshake" \in DOMAIN np.raw /\ np.raw["handshake"] = Str("abc")
  /\ DOMAIN np.raw \cap {"id", "peer_id", "Id", "publicKey", "public_key", "PublicKey"} = {}
  /\ np.out.val.rx = Zero
  /\ ~np.out.val.last_handshake.some
  /\ np.out.val.id = ""

\* C24: _peer_rx and _peer_tx give the coerced value of the first alias, in
\* the accessor's order, that is present with a non-null value, and 0
\* without one: an earlier alias holding null does not hide a later one
C24_FirstNonNull ==
  (np.pc = "done" /\ np.out.st = "ok") =>
    LET i == FirstKey(np.raw, RX_KEYS, NotNone)
        j == FirstKey(np.raw, TX_KEYS, NotNone)
    IN  /\ np.out.val.rx = IF i = 0 THEN Zero ELSE _num(np.raw[RX_KEYS[i]]).val
        /\ np.out.val.tx = IF j = 0 THEN Zero ELSE _num(np.raw[TX_KEYS[j]]).val

-----------------------------------------------------------------------------
(* SpecCoerce: _num and _to_unix on one value *)

\* not an encoding of an instant
NoInst == 0 - 1

CvNumbers ==
  { Zero, Small(1), Small(5), Small(1023), Small(2000000000),
    SInt(1, BigPow2[1]), Huge }

CvUnits == {"", "B", "KB", "MB", "GB", "TB"}

\* the inputs of _num: [v, inst]
CvCounts ==
  {[v |-> x, inst |-> NoInst] :
     x \in {NumStr(n, u) : n \in CvNumbers, u \in CvUnits}
           \cup {JNum(n) : n \in CvNumbers}
           \cup {Null, Str(""), Str("abc")}}

\* the instants: so long before the clock reading t
CvAges == {0, 60, 3600, 2 * 86400}

\* the encodings of the instant i at the clock reading t
CvEncodings(i, t) ==
  { JNum(Small(i)),
    JNum(SInt(1, BigMul(BigOf(i), 1000))),
    JNum(SInt(1, BigMul(BigMul(BigMul(BigOf(i), 1000), 1000), 1000))),
    IsoNaive(i), IsoStr(i, 0), IsoStr(i + 10800, 10800),
    RelStr(t - i, "s") }
  \cup {RelStr((t - i) \div UnitSeconds(u), u) :
          u \in {u \in {"m", "h", "d"} : (t - i) % UnitSeconds(u) = 0}}

InitCoerce ==
  /\ \E t \in Clocks :
       \E a \in CvAges :
         \E in \in CvCounts \cup {[v |-> x, inst |-> t - a] : x \in CvEncodings(t - a, t)} :
           cv = [pc |-> "start", now |-> t, v |-> in.v, inst |-> in.inst,
                 num |-> Zero, unix |-> NoneInt]
  /\ IdleExCv

\* self._num(v)
CvNum ==
  /\ cv.pc = "start"
  /\ cv' = [cv EXCEPT !.pc = "num", !.num = _num(cv.v).val]
  /\ UNCHANGED exCv

\* self._to_unix(v)
CvToUnix ==
  /\ cv.pc = "start"
  /\ cv' = [cv EXCEPT !.pc = "unix", !.unix = _to_unix(cv.v, cv.now).val]
  /\ UNCHANGED exCv

NextCoerce == CvNum \/ CvToUnix

SpecCoerce == InitCoerce /\ [][NextCoerce]_vars

\* C25: for a present-day instant in whole seconds, _to_unix of its unix
\* seconds, its milliseconds, its nanoseconds, its ISO-8601 text and its
\* relative token each differ from the instant by at most one second
C25_EncodingsAgree ==
  (cv.pc = "unix" /\ cv.inst # NoInst) =>
    /\ cv.unix.some
    /\ SLe(Small(cv.inst - 1), cv.unix.val)
    /\ SLe(cv.unix.val, Small(cv.inst + 1))

\* C26: _num of the text "N U" is N * 1024^order(U), of an integer or a
\* plain numeric text is that integer, and of none, an empty text and a
\* text without a number is 0
C26_BinaryUnits ==
  cv.pc = "num" =>
    CASE cv.v.t = "numstr" ->
           cv.num = SInt(cv.v.num.sg, Times1024(cv.v.num.mag, Order(cv.v.s)))
      [] cv.v.t = "num" -> cv.num = cv.v.num
      [] cv.v.t \in {"null", "str"} -> cv.num = Zero
      [] OTHER -> TRUE

-----------------------------------------------------------------------------
(* SpecFind: find_peer_in_snapshot.  A snapshot maps the names of its      *)
(* configurations to their buckets; of a normalized peer the search reads  *)
(* id and public_key.                                                      *)

NPeer(c, i, k) == [config |-> c, id |-> i, public_key |-> k]

\* id is the id, else the public key, else "" (line 799)
FpPeers(c) ==
  { NPeer(c, "7", "pkA"), NPeer(c, "pkA", "pkA"), NPeer(c, "8", ""),
    NPeer(c, "", ""), NPeer(c, "pkB", "pkB"), NPeer(c, "9", "7") }

FpBuckets(c) ==
  {<<>>} \cup {<<a>> : a \in FpPeers(c)} \cup {<<a, b>> : a \in FpPeers(c), b \in FpPeers(c)}

FpNames == {"wg0", "wg1"}

\* the bucket of a configuration holds the peers normalized under its name
FpSnaps ==
  UNION { {f \in [names -> {[peers |-> b] : b \in FpBuckets("wg0") \cup FpBuckets("wg1")}] :
             \A c \in names : f[c].peers \in FpBuckets(c)} : names \in SUBSET FpNames }

FpIdentifiers == {"", "7", "pkA", "pkB", "zz"}

NoPeer == [some |-> FALSE, val |-> NPeer("", "", "")]
SomePeer(x) == [some |-> TRUE, val |-> x]

\* find_peer_in_snapshot, matching the id only
find_peer_in_snapshot_IdOnly(snap, cfg_name, peer_id) ==
  LET peers == IF cfg_name \in DOMAIN snap THEN snap[cfg_name].peers ELSE <<>>
      hits == {i \in DOMAIN peers : peers[i].id = peer_id}
  IN  IF hits = {} THEN NoPeer ELSE SomePeer(peers[SetMin(hits)])

\* find_peer_in_snapshot
find_peer_in_snapshot(snap, cfg_name, peer_id) ==
  LET peers == IF cfg_name \in DOMAIN snap THEN snap[cfg_name].peers ELSE <<>>
      hits == {i \in DOMAIN peers :
                 \/ peers[i].id = peer_id
                 \/ peers[i].public_key # "" /\ peers[i].public_key = peer_id}
  IN  IF hits = {} THEN NoPeer ELSE SomePeer(peers[SetMin(hits)])

InitFind ==
  /\ \E snap \in FpSnaps, c \in FpNames \cup {"wg9"}, i \in FpIdentifiers :
       fp = [pc |-> "start", snap |-> snap, cfg |-> c, ident |-> i, out |-> NoPeer]
  /\ IdleExFp

\* wgd.find_peer_in_snapshot(snap, cfg, pid)
FpFind ==
  /\ fp.pc = "start"
  /\ fp' = [fp EXCEPT !.pc = "done",
                      !.out = find_peer_in_snapshot(fp.snap, fp.cfg, fp.ident)]
  /\ UNCHANGED exFp

NextFind == FpFind

SpecFind == InitFind /\ [][NextFind]_vars

\* the peers of the configuration's bucket, <<>> without one
FpBucket == IF fp.cfg \in DOMAIN fp.snap THEN fp.snap[fp.cfg].peers ELSE <<>>

\* C27: find_peer_in_snapshot returns the first peer of snap[cfg].peers
\* whose id or public_key equals the identifier, and none without one
\* (a cfg missing from the snapshot, an identifier of no configuration);
\* never a peer of another configuration
C27_FirstMatch ==
  fp.pc = "done" =>
    LET hits == {i \in DOMAIN FpBucket :
                   FpBucket[i].id = fp.ident \/ FpBucket[i].public_key = fp.ident}
    IN  /\ hits = {} => ~fp.out.some
        /\ hits # {} =>
             /\ fp.out.some
             /\ fp.out.val = FpBucket[SetMin(hits)]
             /\ fp.out.val.config = fp.cfg

\* C27 as amended: an empty public_key matches no identifier
C27_FirstMatchNonEmptyKey ==
  fp.pc = "done" =>
    LET hits == {i \in DOMAIN FpBucket :
                   \/ FpBucket[i].id = fp.ident
                   \/ FpBucket[i].public_key # "" /\ FpBucket[i].public_key = fp.ident}
    IN  /\ hits = {} => ~fp.out.some
        /\ hits # {} =>
             /\ fp.out.some
             /\ fp.out.val = FpBucket[SetMin(hits)]
             /\ fp.out.val.config = fp.cfg

\* found by its public key, behind a peer that does not match, while the
\* other configuration holds a match too
C27_Witness ==
  /\ fp.pc = "done"
  /\ fp.cfg = "wg0" /\ fp.ident = "pkA"
  /\ FpBucket = <<NPeer("wg0", "8", ""), NPeer("wg0", "7", "pkA")>>
  /\ "wg1" \in DOMAIN fp.snap
  /\ fp.snap["wg1"].peers = <<NPeer("wg1", "pkA", "pkA")>>
  /\ fp.out = SomePeer(NPeer("wg0", "7", "pkA"))

-----------------------------------------------------------------------------
(* SpecTotals: calls of totals(), one after the other, on one client.      *)
(* totals() builds a snapshot: get_configs(), then for every named         *)
(* configuration its embedded peer list or get_peers(name), every peer     *)
(* normalized; then it folds the snapshot.  A request is served in one     *)
(* step and its response handled in a later one; get_peers is one request  *)
(* standing for its five endpoint variants.  The clock reads TtEpoch + now.*)

MaxTotals == 2

TtEpoch == SetMin(Clocks)

\* getattr(SET, "active_window_sec", 180)
DefaultWindow == 180

\* a list element that is not a JSON object is the value itself
IsDict(e) == DOMAIN e # {"t", "s", "n"}

TtPeerA ==
  ("id" :> Num(7)) @@ ("publicKey" :> Str("pkA")) @@ ("rx" :> JNum(Small(100)))
  @@ ("tx" :> JNum(Small(20))) @@ ("LatestHandshake" :> JNum(Small(TtEpoch - 178)))
TtPeerB ==
  ("publicKey" :> Str("pkB")) @@ ("transferRx" :> NumStr(Small(5), "KB"))
  @@ ("transferTx" :> Null) @@ ("handshake" :> RelStr(10, "m"))
TtPeerC == ("id" :> Str("p3")) @@ ("rx" :> JNum(Small(0 - 5))) @@ ("tx" :> JNum(Small(1)))

TtCfg(nm, peers) == [Cfg(nm) EXCEPT !.Peers = peers]

\* the dashboards of the initial states
TtDashboards ==
  { <<>>,
    <<TtCfg("wg0", <<TtPeerA>>)>>,
    <<TtCfg("wg0", <<TtPeerA, TtPeerB>>), TtCfg("wg1", <<>>)>>,
    <<TtCfg("wg0", <<TtPeerB>>), TtCfg("wg1", <<TtPeerC, TtPeerA>>)>>,
    <<TtCfg("wg0", <<>>), TtCfg("", <<TtPeerC>>)>> }

AttributeError == [cls |-> "AttributeError", msg |-> <<>>]
TypeError == [cls |-> "TypeError", msg |-> <<>>]

\* 200 with a JSON array as the document
JsonArray == Resp("ok", 200, <<"[json]">>, "array", "absent", <<>>, NoData)
\* 200 with {"status": true, "data": 5}
JsonDataNum ==
  Resp("ok", 200, <<"{json}">>, "dict", "true", <<>>, [kind |-> "num", items |-> <<>>])

\* the answers to GET /api/getWireguardConfigurations
TtCfgResponses(u, embed) ==
  { JsonOk(ListData(ListView(u, embed))),
    JsonOk(ListData(<<Str("x")>> \o ListView(u, embed))),
    HttpErr(503, <<"unavailable">>),
    JsonArray,
    JsonDataNum }
  \cup (IF embed /\ u # <<>>
          THEN {JsonOk(ListData(<<[u[1] EXCEPT !.Peers = <<Str("x")>> \o @]>>))}
          ELSE {})

\* the answers to the requests of get_peers(name)
TtPeersResponses(u, name) ==
  LET hits == {i \in DOMAIN u : CfgName(u[i]) = name}
      peers == IF hits = {} THEN <<>> ELSE u[SetMin(hits)].Peers
  IN  { JsonOk(ListData(peers)),
        JsonOk(ListData(peers \o <<Str("x")>>)),
        HttpErr(500, <<"internal">>),
        JsonArray }

\* lines 188-189 of get_configs on the document _arequest returned
CfgItems(r) ==
  IF r.json # "dict" THEN [st |-> "raised", val |-> <<>>, err |-> AttributeError]
  ELSE IF r.data.kind = "num" THEN [st |-> "raised", val |-> <<>>, err |-> TypeError]
  ELSE [st |-> "ok", val |-> SelectSeq(Items(r), IsDict), err |-> NoErr]

\* lines 317-338 of get_peers: the list of the answer, [] for every failure
PeersOf(r) ==
  IF r.net = "ok" /\ r.status = 200 /\ r.json = "dict" /\ r.flag # "false"
     /\ r.data.kind = "list"
    THEN r.data.items ELSE <<>>

\* the sum of a sequence of integers
RECURSIVE SeqSum(_)
SeqSum(q) == IF q = <<>> THEN 0 ELSE ToSmall(Head(q)) + SeqSum(Tail(q))

\* the peers of all the buckets of a snapshot, one bucket after the other
RECURSIVE Flatten(_, _)
Flatten(snap, names) ==
  IF names = {} THEN <<>>
  ELSE LET c == CHOOSE c \in names : TRUE
       IN  snap[c].peers \o Flatten(snap, names \ {c})

\* lines 839-844: the fold of totals(), every peer counted as active
TotalsOf_AllActive(snap) ==
  LET all == Flatten(snap, DOMAIN snap)
  IN  [configs |-> Cardinality(DOMAIN snap),
       peers |-> Len(all),
       active_peers |-> Len(all),
       rx |-> SeqSum([i \in DOMAIN all |-> all[i].rx]),
       tx |-> SeqSum([i \in DOMAIN all |-> all[i].tx])]

\* lines 839-844: the fold of totals()
TotalsOf(snap) ==
  LET all == Flatten(snap, DOMAIN snap)
  IN  [configs |-> Cardinality(DOMAIN snap),
       peers |-> Len(all),
       active_peers |-> Len(SelectSeq(all, LAMBDA p : p.active)),
       rx |-> SeqSum([i \in DOMAIN all |-> all[i].rx]),
       tx |-> SeqSum([i \in DOMAIN all |-> all[i].tx])]

NoTotals == [configs |-> 0, peers |-> 0, active_peers |-> 0, rx |-> 0, tx |-> 0]

NoSnap == [c \in {} |-> 0]

TtIdle ==
  [pc |-> Idle, n |-> 0, attempt |-> 0, wire |-> NoVal, cfgs |-> <<>>, i |-> 0,
   snap |-> NoSnap, reqs |-> 0, cache0 |-> EmptyCache,
   out |-> [st |-> "none", val |-> NoTotals, err |-> NoErr]]

InitTotals ==
  /\ IdleExTt
  /\ now = 0
  /\ cache = EmptyCache
  /\ upEmbed \in BOOLEAN
  /\ up \in TtDashboards
  /\ up0 = up
  /\ tt = TtIdle

TtRaised(err) ==
  [tt EXCEPT !.pc = "done", !.wire = NoVal,
             !.out = [st |-> "raised", val |-> NoTotals, err |-> err]]

\* lines 833-834 for the configuration cfgs[i] and its raw peer list:
\* _norm_peer of an element that is no object raises AttributeError
TtBucket(raw_peers) ==
  LET cfg == tt.cfgs[tt.i]
      name == CfgName(cfg)
      peers == [k \in DOMAIN raw_peers |->
                  _norm_peer(name, raw_peers[k], TtEpoch + now, DefaultWindow).val]
  IN  IF \E k \in DOMAIN raw_peers : ~IsDict(raw_peers[k])
        THEN TtRaised(AttributeError)
        ELSE [tt EXCEPT !.pc = "loop", !.wire = NoVal, !.i = @ + 1,
                        !.snap = (name :> [raw |-> cfg, peers |-> peers]) @@ @]

\* totals() -> snapshot() -> get_configs() up to its request
TtCall ==
  /\ tt.pc \in {Idle, "done"} /\ tt.n < MaxTotals
  /\ LET hit == CacheHit(cache, CfgKey, CFG_TTL, now)
         base == [TtIdle EXCEPT !.n = tt.n + 1, !.cache0 = cache]
     IN  /\ cache' = CacheAfterGet(cache, CfgKey, CFG_TTL, now)
         /\ tt' = IF hit
                    THEN [base EXCEPT !.pc = "loop", !.cfgs = cache[CfgKey].val, !.i = 1]
                    ELSE [base EXCEPT !.pc = "cfgs", !.attempt = 1, !.reqs = 1]
  /\ UNCHANGED <<exTt, now, up>>

\* The dashboard answers GET /api/getWireguardConfigurations
TtServeCfgs ==
  /\ tt.pc = "cfgs" /\ tt.wire = NoVal
  /\ \E r \in TtCfgResponses(up, upEmbed) : tt' = [tt EXCEPT !.wire = r]
  /\ UNCHANGED <<exTt, now, up, cache>>

\* get_configs after the response
TtRecvCfgs ==
  /\ tt.pc = "cfgs" /\ tt.wire # NoVal
  /\ LET s == AreqStep("GET", CfgListPath, tt.attempt, MAX_RETRIES, tt.wire)
         items == CfgItems(tt.wire)
     IN  CASE s.act = "retry" ->
                /\ tt' = [tt EXCEPT !.attempt = @ + 1, !.wire = NoVal, !.reqs = @ + 1]
                /\ cache' = cache
           [] s.act = "raise" ->
                /\ tt' = TtRaised(s.err)
                /\ cache' = cache
           [] s.act = "return" /\ items.st # "ok" ->
                /\ tt' = TtRaised(items.err)
                /\ cache' = cache
           [] OTHER ->
                /\ tt' = [tt EXCEPT !.pc = "loop", !.wire = NoVal,
                                    !.cfgs = items.val, !.i = 1]
                /\ cache' = CacheSet(cache, CfgKey, now, items.val)
  /\ UNCHANGED <<exTt, now, up>>

\* One round of snapshot()'s loop: a configuration without a name is
\* skipped, one with embedded peers is normalized, for another get_peers
\* answers from the cache or sends its request; after the last round
\* totals() folds the snapshot and returns
TtLoop ==
  /\ tt.pc = "loop"
  /\ IF tt.i > Len(tt.cfgs)
       THEN /\ tt' = [tt EXCEPT !.pc = "done",
                                !.out = [st |-> "ok", val |-> TotalsOf(tt.snap), err |-> NoErr]]
            /\ cache' = cache
       ELSE LET cfg == tt.cfgs[tt.i]
                name == CfgName(cfg)
                key == PeersKey(name)
            IN  IF name = ""
                  THEN tt' = [tt EXCEPT !.i = @ + 1] /\ cache' = cache
                ELSE IF cfg.Peers # <<>>
                  THEN tt' = TtBucket(cfg.Peers) /\ cache' = cache
                ELSE /\ cache' = CacheAfterGet(cache, key, PEERS_TTL, now)
                     /\ tt' = IF CacheHit(cache, key, PEERS_TTL, now)
                                THEN TtBucket(cache[key].val)
                                ELSE [tt EXCEPT !.pc = "peers", !.wire = NoVal,
                                                !.reqs = @ + 1]
  /\ UNCHANGED <<exTt, now, up>>

\* The dashboard answers the requests of get_peers(name)
TtServePeers ==
  /\ tt.pc = "peers" /\ tt.wire = NoVal
  /\ \E r \in TtPeersResponses(up, CfgName(tt.cfgs[tt.i])) : tt' = [tt EXCEPT !.wire = r]
  /\ UNCHANGED <<exTt, now, up, cache>>

\* get_peers after its requests, then lines 833-834
TtRecvPeers ==
  /\ tt.pc = "peers" /\ tt.wire # NoVal
  /\ LET peers == PeersOf(tt.wire)
     IN  /\ cache' = CacheSet(cache, PeersKey(CfgName(tt.cfgs[tt.i])), now, peers)
         /\ tt' = TtBucket(peers)
  /\ UNCHANGED <<exTt, now, up>>

NextTotals ==
  \/ TtCall
  \/ TtServeCfgs
  \/ TtRecvCfgs
  \/ TtLoop
  \/ TtServePeers
  \/ TtRecvPeers
  \/ Tick

SpecTotals == InitTotals /\ [][NextTotals]_vars

\* the sum of field f over a set of places
RECURSIVE PlaceSum(_, _, _)
PlaceSum(snap, places, f) ==
  IF places = {} THEN 0
  ELSE LET x == CHOOSE x \in places : TRUE
       IN  ToSmall(snap[x[1]].peers[x[2]][f]) + PlaceSum(snap, places \ {x}, f)

\* C28: totals() returns the number of entries of the snapshot, the sum
\* of their peer counts, the number of peers whose active is true, and the
\* sums of the peers' rx and tx, all of one snapshot; so
\* 0 <= active_peers <= peers
C28_TotalsFold ==
  (tt.pc = "done" /\ tt.out.st = "ok") =>
    LET places == UNION {{<<c, k>> : k \in DOMAIN tt.snap[c].peers} : c \in DOMAIN tt.snap}
        res == tt.out.val
    IN  /\ res.configs = Cardinality(DOMAIN tt.snap)
        /\ res.peers = Cardinality(places)
        /\ res.active_peers =
             Cardinality({x \in places : tt.snap[x[1]].peers[x[2]].active})
        /\ res.rx = PlaceSum(tt.snap, places, "rx")
        /\ res.tx = PlaceSum(tt.snap, places, "tx")
        /\ 0 <= res.active_peers /\ res.active_peers <= res.peers

C28_Witness ==
  /\ tt.pc = "done" /\ tt.out.st = "ok"
  /\ tt.out.val.configs = 2
  /\ tt.out.val.peers = 3
  /\ tt.out.val.active_peers = 1

\* C29: a call of totals() sends no request and leaves the cache as it was
C29_TotalsNoIO ==
  tt.pc = "done" => (tt.reqs = 0 /\ cache = tt.cache0)

\* C30: every failure of a public network-facing operation reaches the
\* caller as a WGDError, also for a 2xx response of unrecognised shape
C30_OnlyWGDError ==
  (tt.pc = "done" /\ tt.out.st = "raised") => tt.out.err.cls = "WGDError"

-----------------------------------------------------------------------------
(* SpecFresh: one task changes the peers of wg0 by one create_peer or one  *)
(* delete_peer(config, id) and, once that has returned, takes snapshots.   *)
(* The calls are those of SpecPeer, SpecDelete (its deletePeers request)   *)
(* and SpecTotals; the cache may hold the configurations list of time 0.   *)
(* Time passes between the calls.                                          *)

FrNeedles == {"pk1", "zz"}

InitFresh ==
  /\ IdleExFr
  /\ now = 0
  /\ upEmbed \in BOOLEAN
  /\ \E k \in 0..InitPeersMax :
       up = <<[Cfg(CpConfig) EXCEPT !.Address = CpSubnet, !.Peers = InitPeers(k)]>>
  /\ up0 = up
  /\ cache \in {EmptyCache, CacheSet(EmptyCache, CfgKey, 0, ListView(up, upEmbed))}
  /\ \E ip \in {0, IP(10, 0, 5, 6)} : cp = [CpIdle EXCEPT !.ip0 = ip]
  /\ \E n \in FrNeedles : dp = [DpIdle EXCEPT !.needle = n]
  /\ tt = TtIdle

\* the task calls create_peer
FrCreate == dp.pc = Idle /\ CpCall

\* the task calls delete_peer(config, id): delete_peers at once
FrDelete ==
  /\ cp.pc = Idle /\ dp.pc = Idle
  /\ dp' = DpSendDelete(dp, CpConfig)
  /\ UNCHANGED <<exDp, now, cache, up>>

\* the task takes a snapshot after its mutation has returned
FrSnapshot == (cp.pc = "done" \/ dp.pc = "done") /\ tt.pc = Idle /\ TtCall

\* a second passes while no call is running
FrTick ==
  /\ cp.pc \in {Idle, "done"} /\ dp.pc \in {Idle, "done"} /\ tt.pc \in {Idle, "done"}
  /\ Tick

NextFresh ==
  \/ FrCreate
  \/ CpServeAdd
  \/ CpRecvAdd
  \/ CpServeCfgs
  \/ CpRecvCfgs
  \/ CpServePeers
  \/ CpRecvPeers
  \/ FrDelete
  \/ DpServeDelete
  \/ DpRecvDelete
  \/ FrSnapshot
  \/ TtServeCfgs
  \/ TtRecvCfgs
  \/ TtLoop
  \/ TtServePeers
  \/ TtRecvPeers
  \/ FrTick

SpecFresh == InitFresh /\ [][NextFresh]_vars

\* the snapshot's peers of wg0 that go by the identifier x
FrShown(x) ==
  IF CpConfig \in DOMAIN tt.snap
    THEN {k \in DOMAIN tt.snap[CpConfig].peers :
            \/ tt.snap[CpConfig].peers[k].id = x
            \/ tt.snap[CpConfig].peers[k].public_key = x}
    ELSE {}

\* C31: a snapshot taken by the task after its create_peer or delete_peer
\* returned shows the created peer and does not show the deleted one, at
\* any age of the cache and also when the dashboard embeds the peer lists
C31_SnapshotAfterMutation ==
  (tt.pc = "done" /\ tt.out.st = "ok") =>
    /\ (cp.pc = "done" /\ cp.out.st = "ok") => FrShown(cp.out.val) # {}
    /\ (dp.pc = "done" /\ dp.out.st = "ok") => FrShown(dp.needle) = {}

-----------------------------------------------------------------------------
(* Concurrent fills of one cache entry, on SpecCache *)

\* the list the dashboard holds for the cache key of operation op
CaUpstream(op) == IF CaKey(op) = CfgKey THEN ListView(up, upEmbed) ELSE up[1].Peers

\* C32: two reads of one list that are both in flight after a miss have
\* each sent a request of their own; each of them that returns stores and
\* returns the list of its own response, so the cache holds the value
\* stored last.
C32_RedundantFills ==
  [][\A t \in T :
       /\ (tk[t].pc = "wait" /\ tk[t].op \in GetOps) => tk[t].reqs >= 1
       /\ (tk[t].pc = "wait" /\ tk[t].op \in GetOps /\ tk'[t].pc = "ret"
           /\ tk'[t].out.st = "ok") =>
            /\ tk'[t].out.val = (IF tk[t].wire.status = 200 THEN Items(tk[t].wire) ELSE <<>>)
            /\ CaKey(tk[t].op) \in DOMAIN cache'
            /\ cache'[CaKey(tk[t].op)].val = tk'[t].out.val]_vars

\* both tasks missed the peers list at time 0, each sent a request, the
\* answers differed, and the cache holds the one stored last
C32_Witness ==
  /\ now = 0
  /\ \A t \in T : /\ CaReturned(t, {"get_peers"}) /\ ~tk[t].hit /\ ~tk[t].force
                  /\ tk[t].n = 1 /\ tk[t].reqs = 1
  /\ tk[1].out.val # tk[2].out.val
  /\ tk[2].stored /\ tk[1].foreign
  /\ cache[PeersKey("wg0")].val = tk[2].out.val

\* C34: after a mutation of a list has returned, a read of that list that
\* starts then and is served from the cache yields the list as the
\* dashboard holds it since the mutation: no fetch that was in flight
\* during the mutation has left its value in the cache.
C34_NoStaleFill ==
  [][\A t \in T :
       (/\ CaReturned(1, MutOps)
        /\ tk'[t].pc = "ret" /\ tk'[t].hit /\ tk'[t].n = tk[t].n + 1
        /\ CaKey(tk'[t].op) = CaKey(tk[1].op)) =>
         tk'[t].out.val = CaUpstream(tk'[t].op)]_vars

-----------------------------------------------------------------------------
(* SpecGetPeers: calls of get_peers("wg0"), one after the other, with the  *)
(* five endpoint variants of its loop.  Every request goes through the     *)
(* retry loop attempt by attempt; the dashboard answers each variant with  *)
(* the list, with an object holding the list, with no data, with a JSON    *)
(* array, or it fails.                                                     *)

MaxGets == 2

\* the attempts list of get_peers
GpPaths ==
  <<"/api/getPeers/wg0", "/api/getPeersList/wg0", "/api/getWireguardConfiguration/wg0",
    "/api/getConfiguration/wg0", "/api/getConfigurationPeers/wg0">>

\* {"status": true, "data": {"Peers": peers}}
DictData(peers) == [kind |-> "dict", items |-> peers]

GpResponses(peers) ==
  { JsonOk(ListData(peers)), JsonOk(DictData(peers)), JsonOk(NoData), JsonArray,
    JsonFail(<<"not supported">>), HttpErr(404, <<"not found">>),
    HttpErr(503, <<"unavailable">>), NetFail("ReadTimeout") }

\* no list so far: peers is still []
GpNoList == [found |-> FALSE, peers |-> <<>>]

\* lines 319-332: what the loop body makes of the document _arequest
\* returned: data a list, or data an object (its "Peers" or "peers", else
\* []), ends the loop
GpShape(r) ==
  IF r.json = "dict" /\ r.data.kind \in {"list", "dict"}
    THEN [found |-> TRUE, peers |-> r.data.items]
    ELSE GpNoList

GpIdle ==
  [pc |-> Idle, n |-> 0, force |-> FALSE, hit |-> FALSE, i |-> 0, attempt |-> 0,
   wire |-> NoVal, log |-> <<>>, reqs |-> 0,
   out |-> [st |-> "none", val |-> <<>>, err |-> NoErr]]

InitGetPeers ==
  /\ IdleExGp
  /\ now = 0
  /\ cache = EmptyCache
  /\ upEmbed = FALSE
  /\ \E k \in 0..InitPeersMax : up = <<[Cfg(CpConfig) EXCEPT !.Peers = InitPeers(k)]>>
  /\ up0 = up
  /\ gp = GpIdle

\* get_peers up to its first request: the cached list, or variant 1 is sent
GpCall(force) ==
  /\ gp.pc \in {Idle, "done"} /\ gp.n < MaxGets
  /\ LET key == PeersKey(CpConfig)
         hit == ~force /\ CacheHit(cache, key, PEERS_TTL, now)
         base == [GpIdle EXCEPT !.n = gp.n + 1, !.force = force, !.hit = hit]
     IN  /\ cache' = IF force THEN cache ELSE CacheAfterGet(cache, key, PEERS_TTL, now)
         /\ gp' = IF hit
                    THEN [base EXCEPT !.pc = "done",
                                      !.out = [st |-> "ok", val |-> cache[key].val,
                                               err |-> NoErr]]
                    ELSE [base EXCEPT !.pc = "wait", !.i = 1, !.attempt = 1, !.reqs = 1]
  /\ UNCHANGED <<exGp, now, up>>

\* The dashboard answers the request of the variant the loop is at
GpServe ==
  /\ gp.pc = "wait" /\ gp.wire = NoVal
  /\ \E r \in GpResponses(up[1].Peers) : gp' = [gp EXCEPT !.wire = r]
  /\ UNCHANGED <<exGp, now, up, cache>>

\* lines 334-341: the loop is over with `peers`
GpFinish(g, peers) ==
  [g EXCEPT !.pc = "done", !.wire = NoVal,
            !.out = [st |-> "ok", val |-> peers, err |-> NoErr]]

\* get_peers after a response: _arequest retries, returns or raises; a
\* recognised list ends the loop, anything else moves on to the next
\* variant; after the loop the list is stored and returned
GpRecv ==
  /\ gp.pc = "wait" /\ gp.wire # NoVal
  /\ LET s == AreqStep("GET", GpPaths[gp.i], gp.attempt, MAX_RETRIES, gp.wire)
         shape == IF s.act = "return" THEN GpShape(gp.wire) ELSE GpNoList
         logged == [gp EXCEPT !.log = Append(@, IF shape.found THEN "list"
                                                 ELSE IF s.act = "raise" THEN "error"
                                                 ELSE "shape")]
     IN  CASE s.act = "retry" ->
                /\ gp' = [gp EXCEPT !.attempt = @ + 1, !.wire = NoVal, !.reqs = @ + 1]
                /\ cache' = cache
           [] s.act # "retry" /\ ~shape.found /\ gp.i < Len(GpPaths) ->
                /\ gp' = [logged EXCEPT !.i = @ + 1, !.attempt = 1, !.wire = NoVal,
                                        !.reqs = @ + 1]
                /\ cache' = cache
           [] OTHER ->
                /\ gp' = GpFinish(logged, shape.peers)
                /\ cache' = CacheSet(cache, PeersKey(CpConfig), now, shape.peers)
  /\ UNCHANGED <<exGp, now, up>>

NextGetPeers ==
  \/ \E force \in BOOLEAN : GpCall(force)
  \/ GpServe
  \/ GpRecv
  \/ Tick

SpecGetPeers == InitGetPeers /\ [][NextGetPeers]_vars

\* every variant of the call was tried and none gave a list
GpAllFailed == Len(gp.log) = Len(GpPaths) /\ \A j \in DOMAIN gp.log : gp.log[j] # "list"

\* C39: get_peers returns a list only when some variant answered with a
\* recognised list; when all five variants failed it raises and stores
\* nothing, so an outage is never taken for a configuration without peers.
C39_OutageRaises ==
  (gp.pc = "done" /\ ~gp.hit) =>
    /\ gp.out.st = "ok" => \E j \in DOMAIN gp.log : gp.log[j] = "list"
    /\ GpAllFailed => (gp.out.st = "raised" /\ PeersKey(CpConfig) \notin DOMAIN cache)

-----------------------------------------------------------------------------
(* The requests of one download_peer_conf call, on SpecDownload *)

\* C40: one download_peer_conf call sends each request variant at most
\* once, so at most 6 requests and the POST never twice; and the outcome
\* recorded for a failed variant is that of the request whose answer
\* decided the failure.
C40_EachVariantOnce ==
  /\ \A i \in DOMAIN dl.sent, j \in DOMAIN dl.sent : i # j => dl.sent[i] # dl.sent[j]
  /\ Len(dl.sent) <= Len(Variants)
  /\ Cardinality({i \in DOMAIN dl.sent : Variants[dl.sent[i]].method = "POST"}) <= 1
  /\ (dl.pc = "try" /\ dl.k >= 3) => dl.last[dl.k - 2] = Recorded(dl.k - 1, dl.resp)
  /\ (dl.pc = "done" /\ dl.out.st = "raised" /\ dl.went = DlNone) =>
       dl.last[Len(dl.last)] = Recorded(Len(Variants), dl.resp)

-----------------------------------------------------------------------------
(* SpecNewPeer: the user_newpeer handlers of one Telegram user, two of     *)
(* them at a time (two presses of the button), over the local database     *)
(* and the dashboard.  A handler runs without interruption from one await  *)
(* of the client to the next; ensure_config, create_peer and               *)
(* get_peer_config are each one request to the dashboard with its outcome: *)
(* done, a WGDError, or another exception.  The clock is `now`; an         *)
(* expires_at of 0 is an absent one.                                       *)

\* the user's id in the database, and another user's
Uid == 1
OtherUid == Uid + 1

NwStatuses == {"approved", "pending"}
NwPlans == {"unlimited", "month"}
NwExpiries == {0, 1, 3}
NwLimits == {0 - 1, 0, 1, 2}

NoUser == [exists |-> FALSE, status |-> "", plan |-> "", expires_at |-> 0, devices_limit |-> 0]

NwUsers ==
  {NoUser} \cup
  [exists : {TRUE}, status : NwStatuses, plan : NwPlans, expires_at : NwExpiries,
   devices_limit : NwLimits]

PeerRow(uid, peer, revoked, by) == [user_id |-> uid, wgd_peer_id |-> peer, revoked |-> revoked, by |-> by]

\* the peer tables of the initial states; the rows were added by earlier
\* handlers (by = 0)
NwTables ==
  { <<>>,
    <<PeerRow(Uid, 91, FALSE, 0)>>,
    <<PeerRow(Uid, 91, TRUE, 0), PeerRow(OtherUid, 92, FALSE, 0)>>,
    <<PeerRow(OtherUid, 92, FALSE, 0), PeerRow(Uid, 91, FALSE, 0), PeerRow(Uid, 93, TRUE, 0)>> }

\* count_user_peers: the rows of the user that are not revoked
count_user_peers(rows, uid) ==
  Cardinality({i \in DOMAIN rows : rows[i].user_id = uid /\ ~rows[i].revoked})

\* check_limit that takes the limit itself for free
check_limit_Inclusive(current, limit) == IF limit < 0 THEN TRUE ELSE current <= limit

\* check_limit
check_limit(current, limit) == IF limit < 0 THEN TRUE ELSE current < limit

\* add_peer_row
add_peer_row(rows, uid, peer, by) == Append(rows, PeerRow(uid, peer, FALSE, by))

\* u.plan != "unlimited" and (not u.expires_at or now > u.expires_at)
PlanExpired(u, t) == u.plan # "unlimited" /\ (u.expires_at = 0 \/ t > u.expires_at)

\* the checks of user_newpeer, in their order: the reply that ends the
\* handler, or "pass"
NwChecks(u, rows, t) ==
  IF ~u.exists \/ u.status # "approved" THEN "unavailable"
  ELSE IF PlanExpired(u, t) THEN "expired"
  ELSE IF ~check_limit(count_user_peers(rows, Uid), u.devices_limit) THEN "limit"
  ELSE "pass"

NwIdle == [pc |-> Idle, reqs |-> <<>>, peer |-> 0, made |-> {}, reply |-> "", rows0 |-> 0]

InitNewPeer ==
  /\ IdleExNw
  /\ now = 0
  /\ \E u \in NwUsers, rows \in NwTables, c \in BOOLEAN :
       /\ u.exists /\ u.devices_limit >= 0 => count_user_peers(rows, Uid) <= u.devices_limit
       /\ nw = [user |-> u, rows |-> rows, upCfg |-> c, upPeers |-> {},
                h |-> [x \in T |-> NwIdle]]

\* the handler sends a request of operation op
NwSend(w, x, op) == [w EXCEPT !.h[x].pc = op, !.h[x].reqs = Append(@, op)]

\* the handler replies and ends
NwReply(w, x, reply) == [w EXCEPT !.h[x].pc = "done", !.h[x].reply = reply]

\* the except branches of user_newpeer that also undo what was created
NwFailed_Rollback(w, x, reply) ==
  NwReply([w EXCEPT !.upPeers = @ \ w.h[x].made,
                    !.h[x].reqs = IF w.h[x].made = {} THEN @ ELSE Append(@, "delete_peer")],
          x, reply)

\* the except branches of user_newpeer: a reply, and return
NwFailed(w, x, reply) == NwReply(w, x, reply)

\* the outcomes of an operation of the client
NwOutcomes == {"ok", "WGDError", "Exception"}

NwErrorReply(o) == IF o = "WGDError" THEN "error" ELSE "unexpected"

\* user_newpeer from its start to the request of ensure_config
NwGate(x) ==
  /\ nw.h[x].pc = Idle
  /\ LET chk == NwChecks(nw.user, nw.rows, now)
         w == [nw EXCEPT !.h[x].rows0 = count_user_peers(nw.rows, Uid)]
     IN  nw' = IF chk = "pass" THEN NwSend(w, x, "ensure_config") ELSE NwReply(w, x, chk)
  /\ UNCHANGED <<exNw, now>>

\* ensure_config ends: the configuration exists (also when the answer to
\* its creation was lost), or it does not; then create_peer is called
NwEnsured(x) ==
  /\ nw.h[x].pc = "ensure_config"
  /\ \E o \in NwOutcomes, c \in BOOLEAN :
       /\ o = "ok" => c
       /\ nw.upCfg => c
       /\ LET w == [nw EXCEPT !.upCfg = c]
          IN  nw' = IF o = "ok" THEN NwSend(w, x, "create_peer")
                    ELSE NwFailed(w, x, NwErrorReply(o))
  /\ UNCHANGED <<exNw, now>>

\* the identifier of the peer the dashboard creates next
NwNextPeer == 1 + Cardinality(nw.upPeers)

\* create_peer ends: the dashboard has the new peer (also when the answer
\* was lost or could not be used), or it has not; then get_peer_config
NwCreated(x) ==
  /\ nw.h[x].pc = "create_peer"
  /\ \E o \in NwOutcomes, added \in BOOLEAN :
       /\ o = "ok" => added
       /\ LET w == IF added
                     THEN [nw EXCEPT !.upPeers = @ \cup {NwNextPeer},
                                     !.h[x].made = {NwNextPeer}]
                     ELSE nw
          IN  nw' = IF o = "ok"
                      THEN NwSend([w EXCEPT !.h[x].peer = NwNextPeer], x, "get_peer_config")
                      ELSE NwFailed(w, x, NwErrorReply(o))
  /\ UNCHANGED <<exNw, now>>

\* get_peer_config ends; the row is added and the files are sent
NwConfigured(x) ==
  /\ nw.h[x].pc = "get_peer_config"
  /\ \E o \in NwOutcomes :
       nw' = IF o = "ok"
               THEN NwReply([nw EXCEPT !.rows = add_peer_row(@, Uid, nw.h[x].peer, x)],
                            x, "created")
               ELSE NwFailed(nw, x, NwErrorReply(o))
  /\ UNCHANGED <<exNw, now>>

NextNewPeer ==
  \/ \E x \in T : NwGate(x)
  \/ \E x \in T : NwEnsured(x)
  \/ \E x \in T : NwCreated(x)
  \/ \E x \in T : NwConfigured(x)
  \/ Tick

SpecNewPeer == InitNewPeer /\ [][NextNewPeer]_vars

\* the rows handler x has added
NwRowsBy(x) == {i \in DOMAIN nw.rows : nw.rows[i].by = x}

\* handler x ended in an except branch
NwFailedAt(x) == nw.h[x].pc = "done" /\ nw.h[x].reply \in {"error", "unexpected"}

\* C33: when a later step of user_newpeer fails, nothing created by its
\* earlier steps is rolled back: no delete is sent, the peer (or the
\* configuration) stays on the dashboard, and no local row is added, so
\* the handler leaves the user's count of connections as it was.
C33_NoRollback ==
  /\ \A x \in T :
       NwFailedAt(x) =>
         /\ \A i \in DOMAIN nw.h[x].reqs :
              nw.h[x].reqs[i] \in {"ensure_config", "create_peer", "get_peer_config"}
         /\ nw.h[x].made \subseteq nw.upPeers
         /\ NwRowsBy(x) = {}
  /\ (\A x \in T : nw.h[x].pc = "done" /\ nw.h[x].reply # "created") =>
       count_user_peers(nw.rows, Uid) = nw.h[1].rows0

\* get_peer_config failed after create_peer had made the peer, while the
\* other handler had created the configuration and failed at create_peer
C33_Witness ==
  /\ NwFailedAt(1) /\ nw.h[1].reqs = <<"ensure_config", "create_peer", "get_peer_config">>
  /\ nw.h[1].made # {} /\ nw.h[1].made \subseteq nw.upPeers
  /\ NwFailedAt(2) /\ nw.h[2].reqs = <<"ensure_config", "create_peer">>
  /\ nw.upCfg
  /\ count_user_peers(nw.rows, Uid) = 1

\* C35: for every interleaving of the user's user_newpeer handlers the
\* number of the user's rows that are not revoked stays within a
\* devices_limit that is not negative.
C35_LimitHolds ==
  (nw.user.exists /\ nw.user.devices_limit >= 0) =>
    count_user_peers(nw.rows, Uid) <= nw.user.devices_limit

\* the checks of user_newpeer pass in this state
NwAllowed ==
  /\ nw.user.exists /\ nw.user.status = "approved"
  /\ nw.user.plan = "unlimited" \/ (nw.user.expires_at # 0 /\ now <= nw.user.expires_at)
  /\ nw.user.devices_limit < 0 \/ count_user_peers(nw.rows, Uid) < nw.user.devices_limit

\* C36: user_newpeer sends a request to the dashboard only when the user
\* exists and is approved, the plan is unlimited or has an expires_at that
\* is not in the past, and the count of the user's connections is below
\* devices_limit or the limit is negative; otherwise the handler sends
\* nothing and adds no row.
C36_GatedRequests ==
  [][\A x \in T :
       /\ (nw.h[x].pc = Idle /\ nw'.h[x].pc # Idle) =>
            IF NwAllowed
              THEN nw'.h[x].reqs = <<"ensure_config">>
              ELSE /\ nw'.h[x].pc = "done" /\ nw'.h[x].reqs = <<>>
                   /\ nw'.rows = nw.rows
       /\ (nw.h[x].pc = "done" /\ nw.h[x].reqs = <<>>) =>
            (nw'.h[x] = nw.h[x] /\ NwRowsBy(x)' = {})]_vars

\* one handler was let through and has created a connection, the other
\* was stopped at the limit
C36_Witness ==
  /\ nw.h[1].pc = "done" /\ nw.h[1].reply = "created" /\ Len(nw.h[1].reqs) = 3
  /\ nw.h[2].pc = "done" /\ nw.h[2].reply = "limit" /\ nw.h[2].reqs = <<>>
  /\ nw.user.plan = "month" /\ nw.user.expires_at = now

-----------------------------------------------------------------------------
(* SpecOwn: one run of peer_delete, peer_download or user_delpeer for the  *)
(* Telegram user Uid, over the local database and the dashboard.  The      *)
(* callback data of peer_delete and peer_download is any (config, peer id) *)
(* pair: the user's own connection, a revoked one, another user's, or an   *)
(* unknown one.  delete_peer and get_peer_config are each one request with *)
(* its outcome; a write to the database succeeds or raises.  The list      *)
(* peer_delete shows at its end only reads.                                *)

PdRow(uid, cfg, peer, revoked, created) ==
  [user_id |-> uid, interface |-> cfg, wgd_peer_id |-> peer, revoked |-> revoked,
   created_at |-> created]

\* the peer tables of the initial states; a row's id is its place
PdTables ==
  { <<>>,
    <<PdRow(Uid, "wg1", "p1", FALSE, 5)>>,
    <<PdRow(Uid, "wg1", "p1", FALSE, 5), PdRow(OtherUid, "wg2", "p2", FALSE, 6),
      PdRow(Uid, "wg1", "p3", TRUE, 4)>>,
    <<PdRow(Uid, "wg1", "p4", FALSE, 7), PdRow(Uid, "wg1", "p1", FALSE, 5),
      PdRow(OtherUid, "wg2", "p2", FALSE, 6)>> }

PdUsers == {[exists |-> FALSE, status |-> ""], [exists |-> TRUE, status |-> "approved"],
            [exists |-> TRUE, status |-> "pending"]}

\* the callback data a handler may receive
PdData == {<<"wg1", "p1">>, <<"wg1", "p3">>, <<"wg2", "p2">>, <<"wg2", "p1">>, <<"wg9", "zz">>}

\* get_user_peers: the ids of the user's rows that are not revoked, by
\* created_at, then id
get_user_peers(rows, uid) ==
  LET mine == {i \in DOMAIN rows : rows[i].user_id = uid /\ ~rows[i].revoked}
      before(i, j) == \/ rows[i].created_at < rows[j].created_at
                      \/ rows[i].created_at = rows[j].created_at /\ i < j
  IN  [k \in 1..Cardinality(mine) |->
         CHOOSE i \in mine : Cardinality({j \in mine : before(j, i)}) = k - 1]

\* revoke_peer_row
revoke_peer_row(rows, id) ==
  IF id \in DOMAIN rows THEN [rows EXCEPT ![id].revoked = TRUE] ELSE rows

PdIdle ==
  [pc |-> Idle, cfg |-> "", pid |-> "", row |-> 0, reqs |-> <<>>, res |-> "", reply |-> ""]

InitOwn ==
  /\ IdleExPd
  /\ \E u \in PdUsers, rows \in PdTables :
       pd = [user |-> u, rows |-> rows, rows0 |-> rows,
             upPeers |-> {<<rows[i].interface, rows[i].wgd_peer_id>> :
                            i \in {j \in DOMAIN rows : ~rows[j].revoked}},
             h |-> PdIdle]

\* the handler calls operation op of the client for (cfg, pid)
PdSend(w, op, cfg, pid, row) ==
  [w EXCEPT !.h.pc = op, !.h.cfg = cfg, !.h.pid = pid, !.h.row = row,
            !.h.reqs = Append(@, [op |-> op, cfg |-> cfg, pid |-> pid])]

PdEnd(w, res, reply) == [w EXCEPT !.h.pc = "done", !.h.res = res, !.h.reply = reply]

\* the dashboard deletes the peer when it has it
PdDeleted(w) == [w EXCEPT !.upPeers = @ \ {<<w.h.cfg, w.h.pid>>}]

\* peer_delete up to its delete_peer: the user's row with this peer id,
\* if any, is looked up; then the request
PdDeleteCall(cfg, pid) ==
  /\ pd.h.pc = Idle
  /\ LET mine == IF pd.user.exists THEN get_user_peers(pd.rows, Uid) ELSE <<>>
         hits == {k \in DOMAIN mine : pd.rows[mine[k]].wgd_peer_id = pid}
         row_id == IF hits = {} THEN 0 ELSE mine[SetMin(hits)]
     IN  pd' = PdSend(pd, "peer_delete", cfg, pid, row_id)
  /\ UNCHANGED exPd

\* delete_peer of peer_delete ends: on a WGDError the reply is the error;
\* else the row found is revoked (an exception of the database is passed
\* over) and the reply is "deleted"
PdDeleteRet ==
  /\ pd.h.pc = "peer_delete"
  /\ \E o \in {"ok", "WGDError"}, db \in {"ok", "raises"} :
       pd' = IF o = "WGDError" THEN PdEnd(pd, o, "error")
             ELSE LET w == PdDeleted(pd)
                  IN  PdEnd(IF w.h.row # 0 /\ db = "ok"
                              THEN [w EXCEPT !.rows = revoke_peer_row(@, w.h.row)]
                              ELSE w,
                            o, "deleted")
  /\ UNCHANGED exPd

\* peer_download up to its get_peer_config
PdDownloadCall(cfg, pid) ==
  /\ pd.h.pc = Idle
  /\ pd' = PdSend(pd, "peer_download", cfg, pid, 0)
  /\ UNCHANGED exPd

\* get_peer_config of peer_download ends: the files, the error of a
\* WGDError, or another exception leaves the handler
PdDownloadRet ==
  /\ pd.h.pc = "peer_download"
  /\ \E o \in {"ok", "WGDError", "Exception"} :
       pd' = PdEnd(pd, o, CASE o = "ok" -> "file" [] o = "WGDError" -> "error" [] OTHER -> "")
  /\ UNCHANGED exPd

\* user_delpeer up to its delete_peer: the user must be approved and have
\* a connection; the target is the latest one
PdDelpeerCall ==
  /\ pd.h.pc = Idle
  /\ LET mine == get_user_peers(pd.rows, Uid)
         target == mine[Len(mine)]
     IN  pd' = IF ~pd.user.exists \/ pd.user.status # "approved"
                 THEN PdEnd(pd, "", "unavailable")
               ELSE IF mine = <<>> THEN PdEnd(pd, "", "none")
               ELSE PdSend(pd, "user_delpeer", pd.rows[target].interface,
                           pd.rows[target].wgd_peer_id, target)
  /\ UNCHANGED exPd

\* delete_peer of user_delpeer ends: the reply is the error; or the row is
\* revoked and the reply is "deleted"; an exception of the database leaves
\* the handler
PdDelpeerRet ==
  /\ pd.h.pc = "user_delpeer"
  /\ \E o \in {"ok", "WGDError", "Exception"}, db \in {"ok", "raises"} :
       pd' = IF o = "WGDError" THEN PdEnd(pd, o, "error")
             ELSE IF o = "Exception" THEN PdEnd(pd, o, "unexpected")
             ELSE LET w == PdDeleted(pd)
                  IN  IF db = "ok"
                        THEN PdEnd([w EXCEPT !.rows = revoke_peer_row(@, w.h.row)], o, "deleted")
                        ELSE PdEnd(w, o, "")
  /\ UNCHANGED exPd

NextOwn ==
  \/ \E d \in PdData : PdDeleteCall(d[1], d[2])
  \/ PdDeleteRet
  \/ \E d \in PdData : PdDownloadCall(d[1], d[2])
  \/ PdDownloadRet
  \/ PdDelpeerCall
  \/ PdDelpeerRet

SpecOwn == InitOwn /\ [][NextOwn]_vars

\* the rows of the user for (cfg, pid) that were not revoked at the start
PdOwned(cfg, pid) ==
  {i \in DOMAIN pd.rows0 :
     /\ pd.rows0[i].user_id = Uid /\ ~pd.rows0[i].revoked
     /\ pd.rows0[i].interface = cfg /\ pd.rows0[i].wgd_peer_id = pid}

\* C37: peer_delete and peer_download send a delete or a download to the
\* dashboard only for a pair that is a connection of the requesting user
\* that is not revoked, and only when that user is approved.
C37_OwnPeersOnly ==
  \A k \in DOMAIN pd.h.reqs :
    pd.h.reqs[k].op \in {"peer_delete", "peer_download"} =>
      /\ pd.user.exists /\ pd.user.status = "approved"
      /\ PdOwned(pd.h.reqs[k].cfg, pd.h.reqs[k].pid) # {}

\* the rows revoked by the handler
PdRevoked == {i \in DOMAIN pd.rows : pd.rows[i].revoked /\ ~pd.rows0[i].revoked}

\* C38: in peer_delete and user_delpeer a row becomes revoked only after
\* the delete of its peer returned without an error; when the delete
\* raises, the row stays and the user is told the error; and the user is
\* told "deleted" only when the row is revoked.
C38_RevokeAfterDelete ==
  (pd.h.pc = "done" /\ Len(pd.h.reqs) = 1 /\ pd.h.reqs[1].op \in {"peer_delete", "user_delpeer"}) =>
    /\ PdRevoked # {} =>
         /\ pd.h.res = "ok"
         /\ PdRevoked \subseteq PdOwned(pd.h.cfg, pd.h.pid)
    /\ pd.h.res \in {"WGDError", "Exception"} =>
         (PdRevoked = {} /\ pd.h.reply \in {"error", "unexpected"})
    /\ pd.h.reply = "deleted" => PdRevoked # {}

====
